---- MODULE Spec2Model ----
(***************************************************************************)
(* A model of webidl-napi's runtime marshalling layer                      *)
(* (src/webidl-napi-inl.h): the Promise bridge, the overload resolver, the *)
(* construct-call guard, the value and container codecs and the object     *)
(* wrapping with its same-object cache.                                    *)
(*                                                                         *)
(* Every function of the source is an operator that maps the state it      *)
(* reads (and its inputs) to the state it leaves.  The host handle API is  *)
(* external: each host call either succeeds or reports a failure status.   *)
(* Every host call of the source is wrapped in a macro that leaves the     *)
(* function at the first failure, so one invocation meets at most one      *)
(* failing host call; the input `fail` names that call (its site) and the  *)
(* status it reports, NoFail when every call succeeds.                     *)
(***************************************************************************)
EXTENDS Integers, Sequences, FiniteSets, TLC

VARIABLES
  pr,    \* the Promise and what the host holds for it
  plog,  \* history of the calls made on the Promise
  call,  \* the last call of a stateless function: its inputs and its outputs
  wr,    \* the wrapped instances and the host's references
  wlog,  \* history of the calls made on the wrapped instances
  reg,   \* the InstanceData of one execution context and the host's references
  rlog,  \* history of the calls made on the InstanceData
  xp,    \* the exposed partial properties of the destination prototypes
  xlog,  \* history of the calls made on the exposed partial properties
  cur,   \* the execution contexts' instance data and the InstanceData heap
  clog   \* history of the GetCurrent calls

vars == <<pr, plog, call, wr, wlog, reg, rlog, xp, xlog, cur, clog>>

(***************************************************************************)
(* Host statuses and failure injection.                                    *)
(***************************************************************************)
napi_ok == "napi_ok"

\* Statuses a failing host call reports (two of napi_status's failures).
FailStatuses == {"napi_generic_failure", "napi_pending_exception"}

NoFail == [at |-> "none", idx |-> 0, st |-> napi_ok]

\* The failures of the host calls named in `sites` (loop index 0).
FailsAt(sites) == {NoFail} \cup
                  [at : sites, idx : {0}, st : FailStatuses]

\* nullptr, for every handle and pointer (handles are positive integers).
nullptr == 0

(***************************************************************************)
(* Dynamic (host) values.  A value has a runtime type tag, a numeric       *)
(* content, a string content (a sequence of bytes) and an identity `id`:   *)
(* two objects are the same object iff their ids are equal.                *)
(***************************************************************************)
JsNumber(n) == [t |-> "number", n |-> n, s |-> <<>>, id |-> 0]
JsString(s) == [t |-> "string", n |-> 0, s |-> s, id |-> 0]
JsObject(i) == [t |-> "object", n |-> 0, s |-> <<>>, id |-> i]
\* An Error object whose message is the string `s`.
JsError(s)  == [t |-> "error", n |-> 0, s |-> s, id |-> 0]
JsUndefined == [t |-> "undefined", n |-> 0, s |-> <<>>, id |-> 0]

(***************************************************************************)
(* Converter<int32_t>: napi_create_int32 makes the number with the value,  *)
(* napi_get_value_int32 reads a number and refuses any other type.         *)
(***************************************************************************)
Int32ToJS(value) == JsNumber(value)

Int32ToNativeStatus(value) ==
  IF value.t = "number" THEN napi_ok ELSE "napi_number_expected"

Int32ToNative(value) == value.n

\* The value of a variable in the specifications that do not use it.
Unused == [unused |-> TRUE]

\* No stateless function has been called.  These functions keep nothing
\* between two calls, so a behaviour makes one call, on any inputs.
NoCall == [fn |-> "none"]

(***************************************************************************)
(* Promise<T>, with T = int32_t.                                           *)
(*                                                                         *)
(* The record `p` is one Promise and what the host holds for it:           *)
(*   state, resolution, env, deferred, promise   the members;              *)
(*   created    napi_create_promise calls that succeeded;                  *)
(*   settled    the napi_resolve_deferred / napi_reject_deferred calls     *)
(*              that succeeded on the deferred, in order;                  *)
(*   ncalls     host calls made so far;                                    *)
(*   status     what Conclude(env) returned last;                          *)
(*   thrown     whether NAPI_CALL_RETURN_VOID threw in Conclude().         *)
(***************************************************************************)
kPending  == "kPending"
kResolved == "kResolved"
kRejected == "kRejected"

\* Bounds of the Promise model.
MaxPayload == 2
MaxEnvs == 2
MaxPromiseOps == 3

Payloads == 1..MaxPayload
Envs == 1..MaxEnvs

\* The message napi_create_string_utf8 is given in Conclude: "Promise rejected".
PromiseRejectedMsg == <<"Promise rejected">>

ConcludeSites == {"napi_create_promise", "ToJS", "napi_resolve_deferred",
                  "napi_create_string_utf8", "napi_create_error",
                  "napi_reject_deferred"}

Failed(p, fail, n) == [p EXCEPT !.status = fail.st, !.ncalls = @ + n]

\* Conclude(env) that creates a deferred pair at every call.
ConcludeEnvAlwaysCreates(p, candidate_env, fail) ==
  LET p0 == [p EXCEPT !.env = IF p.env = nullptr THEN candidate_env ELSE p.env]
      create == TRUE
      c == IF create THEN 1 ELSE 0
      p1 == IF create
              THEN [p0 EXCEPT !.deferred = 1, !.promise = 1, !.created = @ + 1]
              ELSE p0
  IN IF p0.env = nullptr THEN [p0 EXCEPT !.status = napi_ok]
     ELSE IF create /\ fail.at = "napi_create_promise" THEN Failed(p0, fail, 1)
     ELSE IF p1.state = kResolved THEN
            IF fail.at = "ToJS" THEN Failed(p1, fail, c + 1)
            ELSE IF fail.at = "napi_resolve_deferred" THEN Failed(p1, fail, c + 2)
            ELSE [p1 EXCEPT !.settled = Append(@, [kind |-> "resolve",
                                                   value |-> Int32ToJS(p1.resolution)]),
                            !.ncalls = @ + c + 2,
                            !.status = napi_ok]
     ELSE IF p1.state = kRejected THEN
            IF fail.at = "napi_create_string_utf8" THEN Failed(p1, fail, c + 1)
            ELSE IF fail.at = "napi_create_error" THEN Failed(p1, fail, c + 2)
            ELSE IF fail.at = "napi_reject_deferred" THEN Failed(p1, fail, c + 3)
            ELSE [p1 EXCEPT !.settled = Append(@, [kind |-> "reject",
                                                   value |-> JsError(PromiseRejectedMsg)]),
                            !.ncalls = @ + c + 3,
                            !.status = napi_ok]
     ELSE [p1 EXCEPT !.ncalls = @ + c, !.status = napi_ok]

\* Promise<T>::Conclude(napi_env candidate_env)
ConcludeEnv(p, candidate_env, fail) ==
  LET p0 == [p EXCEPT !.env = IF p.env = nullptr THEN candidate_env ELSE p.env]
      create == p0.deferred = nullptr
      c == IF create THEN 1 ELSE 0
      p1 == IF create
              THEN [p0 EXCEPT !.deferred = 1, !.promise = 1, !.created = @ + 1]
              ELSE p0
  IN IF p0.env = nullptr THEN [p0 EXCEPT !.status = napi_ok]
     ELSE IF create /\ fail.at = "napi_create_promise" THEN Failed(p0, fail, 1)
     ELSE IF p1.state = kResolved THEN
            IF fail.at = "ToJS" THEN Failed(p1, fail, c + 1)
            ELSE IF fail.at = "napi_resolve_deferred" THEN Failed(p1, fail, c + 2)
            ELSE [p1 EXCEPT !.settled = Append(@, [kind |-> "resolve",
                                                   value |-> Int32ToJS(p1.resolution)]),
                            !.ncalls = @ + c + 2,
                            !.status = napi_ok]
     ELSE IF p1.state = kRejected THEN
            IF fail.at = "napi_create_string_utf8" THEN Failed(p1, fail, c + 1)
            ELSE IF fail.at = "napi_create_error" THEN Failed(p1, fail, c + 2)
            ELSE IF fail.at = "napi_reject_deferred" THEN Failed(p1, fail, c + 3)
            ELSE [p1 EXCEPT !.settled = Append(@, [kind |-> "reject",
                                                   value |-> JsError(PromiseRejectedMsg)]),
                            !.ncalls = @ + c + 3,
                            !.status = napi_ok]
     ELSE [p1 EXCEPT !.ncalls = @ + c, !.status = napi_ok]

\* Promise<T>::Conclude(): with an env, Conclude(env); a failure is thrown.
Conclude(p, fail) ==
  IF p.env # nullptr
    THEN LET q == ConcludeEnv(p, p.env, fail)
         IN [q EXCEPT !.thrown = @ \/ (q.status # napi_ok)]
    ELSE p

\* Resolve without the kPending guard.
ResolveNoGuard(p, result, fail) ==
  Conclude([p EXCEPT !.resolution = result, !.state = kResolved], fail)

\* Resolve that records the outcome and forgets to conclude.
ResolveNoConclude(p, result, fail) ==
  IF p.state # kPending THEN p
  ELSE [p EXCEPT !.resolution = result, !.state = kResolved]

\* Promise<T>::Resolve(const T& result)
Resolve(p, result, fail) ==
  IF p.state # kPending THEN p
  ELSE Conclude([p EXCEPT !.resolution = result, !.state = kResolved], fail)

\* Promise<T>::Reject()
Reject(p, fail) ==
  IF p.state # kPending THEN p
  ELSE Conclude([p EXCEPT !.state = kRejected], fail)

\* Promise<T>::ToJS(env, promise, result), which Converter<Promise<T>>::ToJS
\* forwards to: the status and *result, the member `promise` as it is.
PromiseToJS(env, promise) == [status |-> napi_ok, result |-> promise.promise]

\* A Promise as constructed: pending, no env, no deferred, no future value;
\* `resolution` is a default-initialised T, any value.
PromiseInit(r) ==
  [state |-> kPending, resolution |-> r, env |-> nullptr,
   deferred |-> nullptr, promise |-> nullptr,
   created |-> 0, settled |-> <<>>, ncalls |-> 0,
   status |-> napi_ok, thrown |-> FALSE]

(***************************************************************************)
(* History of the calls made on the Promise (not program state):           *)
(*   n        calls made so far;                                           *)
(*   op       the last call, with the Promise as it was before it (before) *)
(*            and the failure injected into it (fail);                     *)
(*   first    the Promise as the call that left kPending left it;          *)
(*   noops    Resolve / Reject calls made while not kPending.              *)
(***************************************************************************)
PlogInit(p) == [n |-> 0, op |-> "none", before |-> p, fail |-> NoFail,
                first |-> p, noops |-> 0]

Record(op, q, fail) ==
  [n |-> plog.n + 1, op |-> op, before |-> pr, fail |-> fail,
   first |-> IF pr.state = kPending /\ q.state # kPending THEN q ELSE plog.first,
   noops |-> IF op \in {"Resolve", "Reject"} /\ pr.state # kPending
               THEN plog.noops + 1 ELSE plog.noops]

PResolve ==
  \E v \in Payloads, fail \in FailsAt(ConcludeSites) :
    /\ plog.n < MaxPromiseOps
    /\ pr' = Resolve(pr, v, fail)
    /\ plog' = Record("Resolve", pr', fail)
    /\ UNCHANGED <<call, wr, wlog, reg, rlog, xp, xlog, cur, clog>>

PReject ==
  \E fail \in FailsAt(ConcludeSites) :
    /\ plog.n < MaxPromiseOps
    /\ pr' = Reject(pr, fail)
    /\ plog' = Record("Reject", pr', fail)
    /\ UNCHANGED <<call, wr, wlog, reg, rlog, xp, xlog, cur, clog>>

PConclude ==
  \E e \in {nullptr} \cup Envs, fail \in FailsAt(ConcludeSites) :
    /\ plog.n < MaxPromiseOps
    /\ pr' = ConcludeEnv(pr, e, fail)
    /\ plog' = Record("Conclude", pr', fail)
    /\ UNCHANGED <<call, wr, wlog, reg, rlog, xp, xlog, cur, clog>>

\* The Promise is converted to a dynamic value in the live context env.
PToJS ==
  \E env \in Envs :
    /\ plog.n < MaxPromiseOps
    /\ call' = [fn |-> "Promise::ToJS", env |-> env, out |-> PromiseToJS(env, pr)]
    /\ pr' = pr
    /\ plog' = Record("ToJS", pr', NoFail)
    /\ UNCHANGED <<wr, wlog, reg, rlog, xp, xlog, cur, clog>>

InitPromise ==
  \E r \in {0} \cup Payloads :
    /\ pr = PromiseInit(r)
    /\ plog = PlogInit(PromiseInit(r))
    /\ call = Unused /\ wr = Unused /\ wlog = Unused
    /\ reg = Unused /\ rlog = Unused /\ xp = Unused /\ xlog = Unused
    /\ cur = Unused /\ clog = Unused

NextPromise == PResolve \/ PReject \/ PConclude \/ PToJS

SpecPromise == InitPromise /\ [][NextPromise]_vars

(***************************************************************************)
(* Wrapping<T>: a native object attached to a dynamic instance, with its   *)
(* same-object slots.                                                      *)
(*                                                                         *)
(* The record `w` holds the dynamic instances and the host's references:   *)
(*   inst[i]   instance i (the receiver js_rcv of its accessors):          *)
(*               phase   "new", "wrapped", or "finalized" (Destroy ran);   *)
(*               field   the native object's field behind the accessors;   *)
(*               refs    the Wrapping's slots, nullptr or a reference;     *)
(*               events  the releases and deletions made for it, in order; *)
(*   refs      the references napi_create_reference made, each with the    *)
(*             value it holds and whether it was deleted;                  *)
(*   nobj      the dynamic objects conversions have made;                  *)
(*   status    what Create returned last;                                  *)
(*   ret, thrown   what the last accessor call returned, and whether the   *)
(*             last accessor or finalizer call threw;                      *)
(*   wild      whether SetRef stored a reference outside the slots.        *)
(* The field's Converter makes a new dynamic object at every ToJS, as      *)
(* ArrayToJS does, carrying the field's value; ToNative reads it back.     *)
(***************************************************************************)
\* Bounds of the Wrapping model.
MaxSlots == 2
MaxWrapOps == 4

Instances == {1, 2}

\* The values of the native field: two, to tell a rewritten field from the
\* one converted before.
FieldValues == {1, 2}

\* A nullptr napi_value.
NullValue == [t |-> "nullptr", n |-> 0, s |-> <<>>, id |-> 0]

\* The dynamic object number id made from the field value n.
FieldObject(n, id) == [t |-> "object", n |-> n, s |-> <<>>, id |-> id]

InstInit == [phase |-> "new", field |-> 0, refs |-> <<>>, events |-> <<>>]

WrapInit == [inst |-> [i \in Instances |-> InstInit], refs |-> <<>>, nobj |-> 0,
             ret |-> NullValue, status |-> napi_ok, thrown |-> FALSE,
             wild |-> FALSE]

\* The failures of the host calls of an accessor or finalizer: NAPI_CALL
\* throws whatever the status is, so one failure status stands for all.
ThrowingFailsAt(sites, indices) ==
  {NoFail} \cup [at : sites, idx : indices, st : {"napi_generic_failure"}]

\* NAPI_CALL on a failed call: the failure is thrown and nullptr returned.
Throw(w, fail) == [w EXCEPT !.ret = NullValue, !.thrown = TRUE]

\* An accessor returns `value`.
Return(w, value) == [w EXCEPT !.ret = value, !.thrown = FALSE]

\* Create that deletes the native object when napi_wrap fails.
CreateDeletesOnFailure(w, i, field, same_obj_count, fail) ==
  IF fail.at = "napi_wrap"
    THEN [w EXCEPT !.inst[i].field = field,
                   !.inst[i].events = @ \o <<"new Wrapping", "delete native">>,
                   !.ret = NullValue, !.status = fail.st, !.thrown = FALSE]
    ELSE [w EXCEPT !.inst[i] = [phase |-> "wrapped", field |-> field,
                                refs |-> [k \in 1..same_obj_count |-> nullptr],
                                events |-> Append(@.events, "new Wrapping")],
                   !.ret = NullValue, !.status = napi_ok, !.thrown = FALSE]

\* Wrapping<T>::Create(env, js_rcv, cc_rcv, same_obj_count): the Wrapping is
\* allocated with same_obj_count empty slots and attached by napi_wrap.
Create(w, i, field, same_obj_count, fail) ==
  IF fail.at = "napi_wrap"
    THEN [w EXCEPT !.inst[i].field = field,
                   !.inst[i].events = Append(@, "new Wrapping"),
                   !.ret = NullValue, !.status = fail.st, !.thrown = FALSE]
    ELSE [w EXCEPT !.inst[i] = [phase |-> "wrapped", field |-> field,
                                refs |-> [k \in 1..same_obj_count |-> nullptr],
                                events |-> Append(@.events, "new Wrapping")],
                   !.ret = NullValue, !.status = napi_ok, !.thrown = FALSE]

\* Retrieve that looks into the slots of the Wrapping of instance 1, whatever
\* the receiver: one cache shared by all instances.
RetrieveSharedSlots(w, i, ref_idx, fail) ==
  LET refs == w.inst[1].refs
  IN IF fail.at = "napi_unwrap" THEN [status |-> fail.st, ref |-> NullValue]
     ELSE IF ref_idx >= 0 /\ ref_idx < Len(refs) /\ refs[ref_idx + 1] # nullptr
       THEN IF fail.at = "napi_get_reference_value"
              THEN [status |-> fail.st, ref |-> NullValue]
              ELSE [status |-> napi_ok, ref |-> w.refs[refs[ref_idx + 1]].value]
     ELSE [status |-> napi_ok, ref |-> NullValue]

\* Retrieve that never looks into the slots.
RetrieveNoCache(w, i, ref_idx, fail) ==
  IF fail.at = "napi_unwrap" THEN [status |-> fail.st, ref |-> NullValue]
  ELSE [status |-> napi_ok, ref |-> NullValue]

\* Wrapping<T>::Retrieve(env, js_rcv, cc_rcv, ref_idx, ref, get_wrapping):
\* the status and *ref, which the caller initialised to nullptr.
Retrieve(w, i, ref_idx, fail) ==
  LET refs == w.inst[i].refs
  IN IF fail.at = "napi_unwrap" THEN [status |-> fail.st, ref |-> NullValue]
     ELSE IF ref_idx >= 0 /\ ref_idx < Len(refs) /\ refs[ref_idx + 1] # nullptr
       THEN IF fail.at = "napi_get_reference_value"
              THEN [status |-> fail.st, ref |-> NullValue]
              ELSE [status |-> napi_ok, ref |-> w.refs[refs[ref_idx + 1]].value]
     ELSE [status |-> napi_ok, ref |-> NullValue]

\* Wrapping<T>::SetRef(env, idx, same_obj) on instance i's Wrapping: the
\* reference made (count 1) is stored in slot idx.  refs[idx] is not
\* bounds-checked: with idx at or beyond the slot count the store lands
\* outside the slots, in no slot of any Wrapping, and what the program does
\* from then on is not determined (`wild`).
SetRef(w, i, idx, same_obj) ==
  IF idx < Len(w.inst[i].refs)
    THEN [w EXCEPT !.refs = Append(@, [value |-> same_obj, deleted |-> 0]),
                   !.inst[i].refs[idx + 1] = Len(w.refs) + 1]
    ELSE [w EXCEPT !.refs = Append(@, [value |-> same_obj, deleted |-> 0]),
                   !.wild = TRUE]

\* Wrapping<T>::InstanceGetter<FieldType, FieldName, sameIdx>(env, info)
InstanceGetter(w, i, sameIdx, fail) ==
  LET got == Retrieve(w, i, sameIdx, fail)
      result == FieldObject(w.inst[i].field, w.nobj + 1)
      made == [w EXCEPT !.nobj = @ + 1]
  IN IF fail.at = "napi_get_cb_info" THEN Throw(w, fail)
     ELSE IF got.status # napi_ok THEN Throw(w, fail)
     ELSE IF sameIdx >= 0 /\ got.ref # NullValue THEN Return(w, got.ref)
     ELSE IF fail.at = "ToJS" THEN Throw(w, fail)
     ELSE IF sameIdx >= 0
       THEN IF fail.at = "napi_create_reference" THEN Throw(made, fail)
            ELSE Return(SetRef(made, i, sameIdx, result), result)
     ELSE Return(made, result)

\* Wrapping<T>::InstanceSetter<FieldType, FieldName>(env, info): js_new is
\* the argument.
InstanceSetter(w, i, js_new, fail) ==
  IF fail.at = "napi_get_cb_info" THEN Throw(w, fail)
  ELSE IF Retrieve(w, i, -1, fail).status # napi_ok THEN Throw(w, fail)
  ELSE IF fail.at = "ToNative" THEN Throw(w, fail)
  ELSE Return([w EXCEPT !.inst[i].field = js_new.n], NullValue)

\* The loop of Destroy over the slots from position k on:
\* NAPI_CALL_RETURN_VOID leaves Destroy when napi_delete_reference fails.
RECURSIVE ReleaseRefs(_, _, _, _)
ReleaseRefs(w, i, k, fail) ==
  LET refs == w.inst[i].refs
  IN IF k > Len(refs) THEN [w EXCEPT !.status = napi_ok]
     ELSE IF refs[k] = nullptr THEN ReleaseRefs(w, i, k + 1, fail)
     ELSE IF fail.at = "napi_delete_reference" /\ fail.idx = k - 1
       THEN [w EXCEPT !.status = fail.st, !.thrown = TRUE]
     ELSE ReleaseRefs([w EXCEPT !.refs[refs[k]].deleted = @ + 1,
                                !.inst[i].events = Append(@, "napi_delete_reference")],
                      i, k + 1, fail)

\* Wrapping<T>::Destroy(env, data, hint), the finalizer napi_wrap registered.
Destroy(w, i, fail) ==
  LET released == ReleaseRefs([w EXCEPT !.thrown = FALSE, !.ret = NullValue],
                              i, 1, fail)
  IN IF released.thrown
       THEN [released EXCEPT !.inst[i].phase = "finalized"]
       ELSE [released EXCEPT !.inst[i].phase = "finalized",
                             !.inst[i].events =
                               @ \o <<"delete native", "delete wrapping">>]

(***************************************************************************)
(* History of the calls made on the instances (not program state):         *)
(*   n       calls made;                                                   *)
(*   last    the last call: its operation, instance, slot index, whether   *)
(*           it succeeded, the conversions made before it, and for Create  *)
(*           the failure injected into it;                                 *)
(*   first   per instance and slot, the value the first successful         *)
(*           same-object getter call returned (NullValue: none yet);       *)
(*   gets    per instance and slot, the successful getter calls.           *)
(***************************************************************************)
SlotIdx == 0..(MaxSlots - 1)

WlogInit == [n |-> 0,
             last |-> [op |-> "none", i |-> 0, idx |-> -1, ok |-> FALSE, nobj |-> 0,
                       fail |-> NoFail],
             first |-> [i \in Instances |-> [k \in SlotIdx |-> NullValue]],
             gets |-> [i \in Instances |-> [k \in SlotIdx |-> 0]]]

WRecord(op, i, idx, w2) ==
  LET ok == IF op = "Create" THEN w2.status = napi_ok ELSE ~w2.thrown
      sameGet == op = "InstanceGetter" /\ idx >= 0 /\ ok
  IN [n |-> wlog.n + 1,
      last |-> [op |-> op, i |-> i, idx |-> idx, ok |-> ok, nobj |-> wr.nobj,
                fail |-> NoFail],
      first |-> IF sameGet /\ wlog.first[i][idx] = NullValue
                  THEN [wlog.first EXCEPT ![i][idx] = w2.ret]
                  ELSE wlog.first,
      gets |-> IF sameGet THEN [wlog.gets EXCEPT ![i][idx] = @ + 1]
               ELSE wlog.gets]

WCreate ==
  \E i \in Instances, field \in FieldValues, count \in 0..MaxSlots,
     fail \in FailsAt({"napi_wrap"}) :
    /\ ~wr.wild
    /\ wr.inst[i].phase = "new"
    /\ wr.inst[i].events = <<>>
    /\ wr' = Create(wr, i, field, count, fail)
    /\ wlog' = [WRecord("Create", i, -1, wr') EXCEPT !.last.fail = fail]
    /\ UNCHANGED <<pr, plog, call, reg, rlog, xp, xlog, cur, clog>>

WGet ==
  \E i \in Instances :
    /\ ~wr.wild
    /\ wr.inst[i].phase = "wrapped"
    /\ wlog.n < MaxWrapOps
    /\ \E sameIdx \in (-1)..(MaxSlots - 1),
          fail \in ThrowingFailsAt({"napi_get_cb_info", "napi_unwrap",
                                    "napi_get_reference_value", "ToJS",
                                    "napi_create_reference"}, {0}) :
         /\ wr' = InstanceGetter(wr, i, sameIdx, fail)
         /\ wlog' = WRecord("InstanceGetter", i, sameIdx, wr')
    /\ UNCHANGED <<pr, plog, call, reg, rlog, xp, xlog, cur, clog>>

WSet ==
  \E i \in Instances :
    /\ ~wr.wild
    /\ wr.inst[i].phase = "wrapped"
    /\ wlog.n < MaxWrapOps
    /\ \E v \in FieldValues,
          fail \in ThrowingFailsAt({"napi_get_cb_info", "napi_unwrap",
                                    "ToNative"}, {0}) :
         /\ wr' = InstanceSetter(wr, i, JsNumber(v), fail)
         /\ wlog' = WRecord("InstanceSetter", i, -1, wr')
    /\ UNCHANGED <<pr, plog, call, reg, rlog, xp, xlog, cur, clog>>

\* The host finalizes a wrapped instance: it runs the finalizer once.
WDestroy ==
  \E i \in Instances :
    /\ ~wr.wild
    /\ wr.inst[i].phase = "wrapped"
    /\ \E fail \in ThrowingFailsAt({"napi_delete_reference"},
                                    0..(Len(wr.inst[i].refs) - 1)) :
         /\ wr' = Destroy(wr, i, fail)
         /\ wlog' = WRecord("Destroy", i, -1, wr')
    /\ UNCHANGED <<pr, plog, call, reg, rlog, xp, xlog, cur, clog>>

InitWrap ==
  /\ wr = WrapInit
  /\ wlog = WlogInit
  /\ pr = Unused /\ plog = Unused /\ call = Unused
  /\ reg = Unused /\ rlog = Unused /\ xp = Unused /\ xlog = Unused
  /\ cur = Unused /\ clog = Unused

NextWrap == WCreate \/ WGet \/ WSet \/ WDestroy

SpecWrap == InitWrap /\ [][NextWrap]_vars

(***************************************************************************)
(* InstanceData: the registry of one execution context.                    *)
(*                                                                         *)
(* The record `r` is one InstanceData and what the host holds for it:      *)
(*   ctors     the member `ctors`: a function from the names present to    *)
(*             their napi_ref (nullptr, or the number of a reference);     *)
(*   data, cb, hint   the user data, its finalizer and the hint;           *)
(*   refs      the references napi_create_reference made, each with the    *)
(*             constructor it holds and how often it was deleted;          *)
(*   destroyed whether Destroy ran (the context tore down);                *)
(*   finalized how often the user data finalizer cb was run;               *)
(*   ret       what GetConstructor or GetData returned last;               *)
(*   status    what AddConstructor returned last;                          *)
(*   thrown    whether NAPI_CALL_RETURN_VOID threw in Destroy.             *)
(***************************************************************************)
\* Bounds of the registry model.
MaxCtors == 2
MaxRegOps == 3

\* The constructors (dynamic function values) that are registered.
Ctors == 1..MaxCtors

\* The interface names constructors are registered and looked up under.
CtorNames == {"Foo", "Bar"}

\* The user data pointers, finalizers and hints given to SetData.
UserPointers == {nullptr, 1}

\* An InstanceData as GetCurrent allocates it: no constructor, no user data.
InstanceDataInit ==
  [ctors |-> <<>>, data |-> nullptr, cb |-> nullptr, hint |-> nullptr,
   refs |-> <<>>, destroyed |-> FALSE, finalized |-> 0,
   ret |-> nullptr, status |-> napi_ok, thrown |-> FALSE]

\* ctors[name] = ref: the entry of `name` is made, or overwritten.
MapAssign(ctors, name, ref) ==
  [n \in DOMAIN ctors \cup {name} |-> IF n = name THEN ref ELSE ctors[n]]

\* ctors[name] read: an absent name is inserted first, with a
\* value-initialised napi_ref (nullptr).
MapIndex(ctors, name) ==
  IF name \in DOMAIN ctors THEN ctors ELSE MapAssign(ctors, name, nullptr)

\* InstanceData::AddConstructor(env, name, ctor)
AddConstructor(r, name, ctor, fail) ==
  IF fail.at = "napi_create_reference"
    THEN [r EXCEPT !.status = fail.st]
    ELSE [r EXCEPT !.refs = Append(@, [value |-> ctor, deleted |-> 0]),
                   !.ctors = MapAssign(@, name, Len(r.refs) + 1),
                   !.status = napi_ok]

\* InstanceData::SetData(new_data, fin_cb, new_hint)
SetData(r, new_data, fin_cb, new_hint) ==
  [r EXCEPT !.data = new_data, !.cb = fin_cb, !.hint = new_hint]

\* InstanceData::GetData()
GetData(r) == [r EXCEPT !.ret = r.data]

\* InstanceData::GetConstructor(name): return ctors[name]
GetConstructor(r, name) ==
  LET indexed == MapIndex(r.ctors, name)
  IN [r EXCEPT !.ctors = indexed, !.ret = indexed[name]]

\* The orders in which a loop over the map can meet the names in S.
Orders(S) ==
  {o \in [1..Cardinality(S) -> S] : \A a, b \in DOMAIN o : a # b => o[a] # o[b]}

\* The loop of InstanceData::Destroy from position k of `order` on:
\* NAPI_CALL_RETURN_VOID leaves Destroy when napi_delete_reference fails,
\* which it does on a nullptr reference (napi_invalid_arg).
RECURSIVE DeleteCtorRefs(_, _, _, _)
DeleteCtorRefs(r, order, k, fail) ==
  IF k > Len(order) THEN r
  ELSE LET ref == r.ctors[order[k]]
       IN IF ref = nullptr
            THEN [r EXCEPT !.status = "napi_invalid_arg", !.thrown = TRUE]
          ELSE IF fail.at = "napi_delete_reference" /\ fail.idx = k - 1
            THEN [r EXCEPT !.status = fail.st, !.thrown = TRUE]
          ELSE DeleteCtorRefs([r EXCEPT !.refs[ref].deleted = @ + 1],
                              order, k + 1, fail)

\* InstanceData::Destroy(env), run by DestroyInstanceData when the context
\* tears down; `order` is the order in which the loop meets the entries.
InstanceDataDestroy(r, order, fail) ==
  LET released == DeleteCtorRefs([r EXCEPT !.destroyed = TRUE, !.thrown = FALSE,
                                           !.status = napi_ok],
                                 order, 1, fail)
  IN IF released.thrown THEN released
     ELSE IF r.data # nullptr /\ r.cb # nullptr
       THEN [released EXCEPT !.finalized = @ + 1]
     ELSE released

(***************************************************************************)
(* History of the calls made on the InstanceData (not program state):      *)
(*   n        calls made;                                                  *)
(*   op, name the last call and the name given to it;                      *)
(*   before   the InstanceData as it was before the last call;             *)
(*   added    the references AddConstructor created (their numbers).       *)
(***************************************************************************)
RlogInit == [n |-> 0, op |-> "none", name |-> "", before |-> InstanceDataInit,
             added |-> {}]

RRecord(op, name, r2) ==
  [n |-> rlog.n + 1, op |-> op, name |-> name, before |-> reg,
   added |-> IF op = "AddConstructor" /\ r2.status = napi_ok
               THEN rlog.added \cup {Len(r2.refs)} ELSE rlog.added]

RAddConstructor ==
  /\ ~reg.destroyed /\ rlog.n < MaxRegOps
  /\ \E name \in CtorNames, ctor \in Ctors,
        fail \in FailsAt({"napi_create_reference"}) :
       /\ reg' = AddConstructor(reg, name, ctor, fail)
       /\ rlog' = RRecord("AddConstructor", name, reg')
  /\ UNCHANGED <<pr, plog, call, wr, wlog, xp, xlog, cur, clog>>

RGetConstructor ==
  /\ ~reg.destroyed /\ rlog.n < MaxRegOps
  /\ \E name \in CtorNames :
       /\ reg' = GetConstructor(reg, name)
       /\ rlog' = RRecord("GetConstructor", name, reg')
  /\ UNCHANGED <<pr, plog, call, wr, wlog, xp, xlog, cur, clog>>

RSetData ==
  /\ ~reg.destroyed /\ rlog.n < MaxRegOps
  /\ \E new_data \in UserPointers, fin_cb \in UserPointers :
       /\ reg' = SetData(reg, new_data, fin_cb, nullptr)
       /\ rlog' = RRecord("SetData", "", reg')
  /\ UNCHANGED <<pr, plog, call, wr, wlog, xp, xlog, cur, clog>>

RGetData ==
  /\ ~reg.destroyed /\ rlog.n < MaxRegOps
  /\ reg' = GetData(reg)
  /\ rlog' = RRecord("GetData", "", reg')
  /\ UNCHANGED <<pr, plog, call, wr, wlog, xp, xlog, cur, clog>>

\* The context tears down: the host runs DestroyInstanceData once.
RDestroy ==
  /\ ~reg.destroyed
  /\ \E order \in Orders(DOMAIN reg.ctors),
        fail \in ThrowingFailsAt({"napi_delete_reference"},
                                 0..(Cardinality(DOMAIN reg.ctors) - 1)) :
       /\ reg' = InstanceDataDestroy(reg, order, fail)
       /\ rlog' = [RRecord("Destroy", "", reg') EXCEPT !.n = rlog.n]
  /\ UNCHANGED <<pr, plog, call, wr, wlog, xp, xlog, cur, clog>>

InitRegistry ==
  /\ reg = InstanceDataInit
  /\ rlog = RlogInit
  /\ pr = Unused /\ plog = Unused /\ call = Unused
  /\ wr = Unused /\ wlog = Unused /\ xp = Unused /\ xlog = Unused
  /\ cur = Unused /\ clog = Unused

NextRegistry ==
  RAddConstructor \/ RGetConstructor \/ RSetData \/ RGetData \/ RDestroy

SpecRegistry == InitRegistry /\ [][NextRegistry]_vars

(***************************************************************************)
(* InstanceData::GetCurrent: the InstanceData of each execution context.   *)
(*                                                                         *)
(* The record `c` is what the host holds per context, and the heap:        *)
(*   data     per context, the instance data pointer the host holds        *)
(*            (nullptr, or the number of an InstanceData in `heap`);       *)
(*   alive    per context, whether it has not been torn down;              *)
(*   heap     the InstanceData allocated so far, each with the context it  *)
(*            was allocated for, how often it was deleted, and its members;*)
(*   result   the caller's InstanceData* that GetCurrent was given;        *)
(*   status   what GetCurrent returned last.                               *)
(***************************************************************************)
\* Bound of the GetCurrent model: the calls made.
MaxCurrentOps == 4

\* The execution contexts (napi_env).
CurrentEnvs == {1, 2}

\* No context has instance data yet.
CurrentInit ==
  [data |-> [e \in CurrentEnvs |-> nullptr],
   alive |-> [e \in CurrentEnvs |-> TRUE],
   heap |-> <<>>, result |-> nullptr, status |-> napi_ok]

\* GetCurrent that allocates and registers a new InstanceData at every call.
GetCurrentAlwaysAllocates(c, env, prior, fail) ==
  LET start == [c EXCEPT !.result = prior]
      new_data == Len(c.heap) + 1
      allocated == [start EXCEPT !.heap = Append(@, [env |-> env, freed |-> 0,
                                                    members |-> InstanceDataInit])]
  IN IF fail.at = "napi_get_instance_data" THEN [start EXCEPT !.status = fail.st]
     ELSE IF fail.at = "napi_set_instance_data"
       THEN [allocated EXCEPT !.heap[new_data].freed = @ + 1,
                              !.status = fail.st]
     ELSE [allocated EXCEPT !.data[env] = new_data, !.result = new_data,
                            !.status = napi_ok]

\* InstanceData::GetCurrent(env, result): `prior` is what *result held when
\* the call was made.
GetCurrent(c, env, prior, fail) ==
  LET start == [c EXCEPT !.result = prior]
      new_data == Len(c.heap) + 1
      allocated == [start EXCEPT !.heap = Append(@, [env |-> env, freed |-> 0,
                                                    members |-> InstanceDataInit])]
  IN IF fail.at = "napi_get_instance_data" THEN [start EXCEPT !.status = fail.st]
     ELSE IF c.data[env] = nullptr
       THEN IF fail.at = "napi_set_instance_data"
              THEN [allocated EXCEPT !.heap[new_data].freed = @ + 1,
                                     !.status = fail.st]
              ELSE [allocated EXCEPT !.data[env] = new_data,
                                     !.result = new_data, !.status = napi_ok]
     ELSE [start EXCEPT !.result = c.data[env], !.status = napi_ok]

\* InstanceData::DestroyInstanceData(env, data, hint), the finalizer
\* napi_set_instance_data registered: it runs Destroy on the InstanceData.
DestroyInstanceData(c, env) ==
  IF c.data[env] = nullptr THEN c
  ELSE [c EXCEPT !.heap[c.data[env]].members =
                   InstanceDataDestroy(@, <<>>, NoFail)]

(***************************************************************************)
(* History of the GetCurrent calls (not program state):                    *)
(*   n       calls made;                                                   *)
(*   last    the last operation: its context, what *result held before,    *)
(*           the failure injected, the context's instance data pointer     *)
(*           before, and the heap's length before;                         *)
(*   first   per context, what the first successful call returned there    *)
(*           (nullptr: none yet).                                          *)
(***************************************************************************)
ClogInit ==
  [n |-> 0,
   last |-> [op |-> "none", env |-> 0, prior |-> nullptr, fail |-> NoFail,
             had |-> nullptr, heaplen |-> 0],
   first |-> [e \in CurrentEnvs |-> nullptr]]

CRecord(env, prior, fail, c2) ==
  [n |-> clog.n + 1,
   last |-> [op |-> "GetCurrent", env |-> env, prior |-> prior, fail |-> fail,
             had |-> cur.data[env], heaplen |-> Len(cur.heap)],
   first |-> IF c2.status = napi_ok /\ clog.first[env] = nullptr
               THEN [clog.first EXCEPT ![env] = c2.result] ELSE clog.first]

\* GetCurrent is called in a context still alive; *result holds nullptr or
\* any InstanceData pointer the caller got before.
CGetCurrent ==
  /\ clog.n < MaxCurrentOps
  /\ \E env \in CurrentEnvs :
       /\ cur.alive[env]
       /\ \E prior \in {nullptr} \cup
                        {cur.data[e] : e \in CurrentEnvs},
             fail \in FailsAt({"napi_get_instance_data",
                               "napi_set_instance_data"}) :
            /\ cur' = GetCurrent(cur, env, prior, fail)
            /\ clog' = CRecord(env, prior, fail, cur')
  /\ UNCHANGED <<pr, plog, call, wr, wlog, reg, rlog, xp, xlog>>

\* A context tears down: the host runs the instance data finalizer, if one
\* was registered.
CTeardown ==
  /\ \E env \in CurrentEnvs :
       /\ cur.alive[env]
       /\ cur' = [DestroyInstanceData(cur, env) EXCEPT !.alive[env] = FALSE]
       /\ clog' = [clog EXCEPT !.last.op = "teardown", !.last.env = env]
  /\ UNCHANGED <<pr, plog, call, wr, wlog, reg, rlog, xp, xlog>>

InitCurrent ==
  /\ cur = CurrentInit
  /\ clog = ClogInit
  /\ pr = Unused /\ plog = Unused /\ call = Unused
  /\ wr = Unused /\ wlog = Unused /\ reg = Unused /\ rlog = Unused
  /\ xp = Unused /\ xlog = Unused

NextCurrent == CGetCurrent \/ CTeardown

SpecCurrent == InitCurrent /\ [][NextCurrent]_vars

(***************************************************************************)
(* ExposedPartialProperty<T> and ExposedPartialSameObjProperty<T>: extra   *)
(* properties on the prototypes of global constructors.  T is int32_t for  *)
(* the plain variant; the same-object variant's T converts to a new        *)
(* dynamic object at every ToJS, as ArrayToJS does.                        *)
(*                                                                         *)
(* The record `x` holds the destination prototypes and the heap:           *)
(*   recs      the backing records Define allocated, in order, each with   *)
(*             its kind ("plain" or "same"), its member `value` (the       *)
(*             native value, or nullptr / the number of a reference) and   *)
(*             how often it was deleted;                                   *)
(*   fin[d]    the records napi_add_finalizer attached to prototype d;     *)
(*   prop[d]   per kind, the record the property defined on prototype d    *)
(*             carries as its data (nullptr: not defined);                 *)
(*   live[d]   whether prototype d has not been finalized;                 *)
(*   refs      the references napi_create_reference made;                  *)
(*   nobj      the dynamic objects conversions have made;                  *)
(*   items[d]  the native values the same-object getter constructed on d;  *)
(*   status    what Define returned last;                                  *)
(*   ret, thrown   what the last accessor call returned, and whether the   *)
(*             last accessor or finalizer call threw;                      *)
(*   wild      whether an accessor used a pointer to no record.            *)
(***************************************************************************)
\* Bound of the exposed-property model.
MaxExposedOps == 3

\* The destination prototypes (of the globals named in `globals`): two, as
\* for a realm's global and a worker's global.
Dests == {1, 2}

\* The values given to the plain property's setter.
ExposedValues == {1, 2}

Kinds == {"plain", "same"}

ExposedInit ==
  [recs |-> <<>>,
   fin |-> [d \in Dests |-> <<>>],
   prop |-> [d \in Dests |-> [k \in Kinds |-> nullptr]],
   live |-> [d \in Dests |-> TRUE],
   refs |-> <<>>, nobj |-> 0,
   items |-> [d \in Dests |-> 0],
   status |-> napi_ok, ret |-> NullValue, thrown |-> FALSE, wild |-> FALSE]

\* new ExposedPartialProperty<T> / new ExposedPartialSameObjProperty<T>:
\* the plain record's value is a value-initialised T, the same-object
\* record's value is nullptr.
NewRecord(kind) == [kind |-> kind, value |-> 0, freed |-> 0]

\* GetExposureGlobals(env, globals, result): the status; `globals` are the
\* prototypes the names resolve to, which *result holds on success.
GetExposureGlobals(globals, fail) ==
  IF fail.at = "napi_get_global" THEN fail.st
  ELSE IF fail.at = "napi_get_named_property" /\ fail.idx < Len(globals)
    THEN fail.st
  ELSE napi_ok

\* The loop of Define over dests from position k on: a record is allocated,
\* given a finalizer on the destination, and the property is defined with
\* the record as its data; a failing host call ends Define with its status.
RECURSIVE DefineLoop(_, _, _, _, _)
DefineLoop(x, kind, dests, k, fail) ==
  IF k > Len(dests) THEN [x EXCEPT !.status = napi_ok]
  ELSE LET dest == dests[k]
           data == Len(x.recs) + 1
           allocated == [x EXCEPT !.recs = Append(@, NewRecord(kind))]
           attached == [allocated EXCEPT !.fin[dest] = Append(@, data)]
           defined == [attached EXCEPT !.prop[dest][kind] = data]
       IN IF fail.at = "napi_add_finalizer" /\ fail.idx = k - 1
            THEN [allocated EXCEPT !.status = fail.st]
          ELSE IF fail.at = "napi_define_properties" /\ fail.idx = k - 1
            THEN [attached EXCEPT !.status = fail.st]
          ELSE DefineLoop(defined, kind, dests, k + 1, fail)

\* ExposedPartialSameObjProperty<T>::Define(env, globals, utf8name)
SameObjDefine(x, globals, fail) ==
  LET cleared == [x EXCEPT !.ret = NullValue, !.thrown = FALSE]
  IN IF GetExposureGlobals(globals, fail) # napi_ok
       THEN [cleared EXCEPT !.status = GetExposureGlobals(globals, fail)]
       ELSE DefineLoop(cleared, "same", globals, 1, fail)

\* ExposedPartialProperty<T>::Define(env, globals, utf8name): after the loop
\* the function ends without a return statement, so what the caller reads
\* as its status is not determined; `garbage` is that value.
PlainDefine(x, globals, fail, garbage) ==
  LET cleared == [x EXCEPT !.ret = NullValue, !.thrown = FALSE]
      looped == DefineLoop(cleared, "plain", globals, 1, fail)
  IN IF GetExposureGlobals(globals, fail) # napi_ok
       THEN [cleared EXCEPT !.status = GetExposureGlobals(globals, fail)]
     ELSE IF looped.status # napi_ok THEN looped
     ELSE [looped EXCEPT !.status = garbage]

\* An accessor returns `value` / throws (NAPI_CALL on a failed call).
XReturn(x, value) == [x EXCEPT !.ret = value, !.thrown = FALSE]
XThrow(x) == [x EXCEPT !.ret = NullValue, !.thrown = TRUE]

\* ExposedPartialProperty<T>::Getter(env, info).  The local `data` is
\* initialised from itself, not from raw_data: its value is not determined.
\* `data` is that value: the number of a plain record, or nullptr for a
\* pointer to no record.
PlainGetter(x, data, fail) ==
  IF fail.at = "napi_get_cb_info" THEN XThrow(x)
  ELSE IF data = nullptr THEN [XReturn(x, NullValue) EXCEPT !.wild = TRUE]
  ELSE IF fail.at = "ToJS" THEN XThrow(x)
  ELSE XReturn(x, Int32ToJS(x.recs[data].value))

\* ExposedPartialProperty<T>::Setter(env, info): new_value is the argument;
\* `data` as in the getter.
PlainSetter(x, data, new_value, fail) ==
  IF fail.at = "napi_get_cb_info" THEN XThrow(x)
  ELSE IF data = nullptr THEN [XReturn(x, NullValue) EXCEPT !.wild = TRUE]
  ELSE IF Int32ToNativeStatus(new_value) # napi_ok \/ fail.at = "ToNative"
    THEN XThrow(x)
  ELSE XReturn([x EXCEPT !.recs[data].value = Int32ToNative(new_value)],
               NullValue)

\* The same-object getter that returns a new conversion at every read.
SameObjGetterNoCache(x, raw_data, dest, fail) ==
  LET result == FieldObject(0, x.nobj + 1)
      made == [x EXCEPT !.nobj = @ + 1, !.items[dest] = @ + 1]
  IN IF fail.at = "napi_get_cb_info" THEN XThrow(x)
     ELSE IF fail.at = "ToJS" THEN XThrow([x EXCEPT !.items[dest] = @ + 1])
     ELSE XReturn(made, result)

\* ExposedPartialSameObjProperty<T>::Getter(env, info): raw_data is the
\* record of the property read, on prototype dest.
SameObjGetter(x, raw_data, dest, fail) ==
  LET result == FieldObject(0, x.nobj + 1)
      made == [x EXCEPT !.nobj = @ + 1, !.items[dest] = @ + 1]
  IN IF fail.at = "napi_get_cb_info" THEN XThrow(x)
     ELSE IF x.recs[raw_data].value = nullptr
       THEN IF fail.at = "ToJS" THEN XThrow([x EXCEPT !.items[dest] = @ + 1])
            ELSE IF fail.at = "napi_create_reference" THEN XThrow(made)
            ELSE XReturn([made EXCEPT
                            !.refs = Append(@, [value |-> result, deleted |-> 0]),
                            !.recs[raw_data].value = Len(x.refs) + 1],
                         result)
     ELSE IF fail.at = "napi_get_reference_value" THEN XThrow(x)
     ELSE XReturn(x, x.refs[x.recs[raw_data].value].value)

\* ExposedPartialProperty<T>::Destroy(env, data, hint)
PlainDestroy(x, data) == [x EXCEPT !.recs[data].freed = @ + 1]

\* ExposedPartialSameObjProperty<T>::Destroy(env, raw_data, hint)
SameObjDestroy(x, raw_data, fail) ==
  LET value == x.recs[raw_data].value
  IN IF value = nullptr THEN [x EXCEPT !.recs[raw_data].freed = @ + 1]
     ELSE IF fail.at = "napi_delete_reference" THEN XThrow(x)
     ELSE [x EXCEPT !.refs[value].deleted = @ + 1,
                    !.recs[raw_data].freed = @ + 1]

\* The host finalizes prototype dest: the finalizers attached to it run,
\* from position k of fin[dest] on; `fail` names the one (by its position)
\* whose napi_delete_reference fails.
RECURSIVE RunFinalizers(_, _, _, _)
RunFinalizers(x, dest, k, fail) ==
  IF k > Len(x.fin[dest]) THEN x
  ELSE LET data == x.fin[dest][k]
       IN RunFinalizers(IF x.recs[data].kind = "plain"
                          THEN PlainDestroy(x, data)
                          ELSE SameObjDestroy(x, data,
                                 IF fail.idx = k - 1 THEN fail ELSE NoFail),
                        dest, k + 1, fail)

Finalize(x, dest, fail) ==
  RunFinalizers([x EXCEPT !.live[dest] = FALSE, !.thrown = FALSE,
                          !.ret = NullValue],
                dest, 1, fail)

(***************************************************************************)
(* History of the calls made on the exposed properties (not program        *)
(* state):                                                                 *)
(*   n        accessor calls made;                                         *)
(*   last     the last call: its operation, prototype, whether it          *)
(*            succeeded, and whether all its host calls succeeded;         *)
(*   first    per prototype, the value the first successful same-object    *)
(*            read returned (NullValue: none yet);                         *)
(*   late     per prototype, the native values the same-object getter      *)
(*            constructed after that first successful read;                *)
(*   clean    per prototype, whether no same-object read on it threw;      *)
(*   lastset  per prototype, the value the last successful Setter call     *)
(*            on it was given (0: none yet).                               *)
(***************************************************************************)
XlogInit ==
  [n |-> 0,
   last |-> [op |-> "none", d |-> 0, ok |-> FALSE, hostok |-> TRUE],
   first |-> [d \in Dests |-> NullValue],
   late |-> [d \in Dests |-> 0],
   clean |-> [d \in Dests |-> TRUE],
   lastset |-> [d \in Dests |-> 0]]

XRecord(op, d, v, fail, x2) ==
  LET ok == IF op \in {"PlainDefine", "SameObjDefine"}
              THEN x2.status = napi_ok
              ELSE ~x2.thrown /\ ~x2.wild
      read == op = "SameObjGetter"
  IN [n |-> IF op \in {"PlainGetter", "PlainSetter", "SameObjGetter"}
              THEN xlog.n + 1 ELSE xlog.n,
      last |-> [op |-> op, d |-> d, ok |-> ok, hostok |-> fail = NoFail],
      first |-> IF read /\ ok /\ xlog.first[d] = NullValue
                  THEN [xlog.first EXCEPT ![d] = x2.ret] ELSE xlog.first,
      late |-> IF read /\ xlog.first[d] # NullValue
                 THEN [xlog.late EXCEPT ![d] = @ + x2.items[d] - xp.items[d]]
                 ELSE xlog.late,
      clean |-> IF read /\ x2.thrown
                  THEN [xlog.clean EXCEPT ![d] = FALSE] ELSE xlog.clean,
      lastset |-> IF op = "PlainSetter" /\ ok
                    THEN [xlog.lastset EXCEPT ![d] = v] ELSE xlog.lastset]

\* The lists of prototypes the names in `globals` resolve to: one or more
\* prototypes, each once.
GlobalLists == UNION {Orders(S) : S \in (SUBSET Dests) \ {{}}}

\* The host calls of Define on n globals, one of which fails, or none.
DefineFails(n) ==
  {NoFail}
  \cup [at : {"napi_get_global"}, idx : {0}, st : FailStatuses]
  \cup [at : {"napi_get_named_property", "napi_add_finalizer",
              "napi_define_properties"},
        idx : 0..(n - 1), st : FailStatuses]

\* The records of kind `kind` allocated so far.
RecordsOf(x, kind) == {k \in DOMAIN x.recs : x.recs[k].kind = kind}

XPlainDefine ==
  /\ RecordsOf(xp, "plain") = {} /\ ~xp.wild
  /\ \A d \in Dests : xp.live[d]
  /\ \E globals \in GlobalLists :
       \E fail \in DefineFails(Len(globals)),
          garbage \in {napi_ok} \cup FailStatuses :
         /\ xp' = PlainDefine(xp, globals, fail, garbage)
         /\ xlog' = XRecord("PlainDefine", 0, 0, fail, xp')
  /\ UNCHANGED <<pr, plog, call, wr, wlog, reg, rlog, cur, clog>>

XSameObjDefine ==
  /\ RecordsOf(xp, "same") = {} /\ ~xp.wild
  /\ \A d \in Dests : xp.live[d]
  /\ \E globals \in GlobalLists :
       \E fail \in DefineFails(Len(globals)) :
         /\ xp' = SameObjDefine(xp, globals, fail)
         /\ xlog' = XRecord("SameObjDefine", 0, 0, fail, xp')
  /\ UNCHANGED <<pr, plog, call, wr, wlog, reg, rlog, cur, clog>>

\* The plain property is read on prototype d; the getter's `data` is any
\* pointer: a plain record, or a pointer to no record.
XPlainGetter ==
  /\ xlog.n < MaxExposedOps /\ ~xp.wild
  /\ \E d \in Dests :
       /\ xp.live[d] /\ xp.prop[d]["plain"] # nullptr
       /\ \E data \in RecordsOf(xp, "plain") \cup {nullptr},
             fail \in ThrowingFailsAt({"napi_get_cb_info", "ToJS"}, {0}) :
            /\ xp' = PlainGetter(xp, data, fail)
            /\ xlog' = XRecord("PlainGetter", d, 0, fail, xp')
  /\ UNCHANGED <<pr, plog, call, wr, wlog, reg, rlog, cur, clog>>

XPlainSetter ==
  /\ xlog.n < MaxExposedOps /\ ~xp.wild
  /\ \E d \in Dests :
       /\ xp.live[d] /\ xp.prop[d]["plain"] # nullptr
       /\ \E data \in RecordsOf(xp, "plain") \cup {nullptr},
             v \in ExposedValues,
             fail \in ThrowingFailsAt({"napi_get_cb_info", "ToNative"}, {0}) :
            /\ xp' = PlainSetter(xp, data, JsNumber(v), fail)
            /\ xlog' = XRecord("PlainSetter", d, v, fail, xp')
  /\ UNCHANGED <<pr, plog, call, wr, wlog, reg, rlog, cur, clog>>

XSameObjGetter ==
  /\ xlog.n < MaxExposedOps /\ ~xp.wild
  /\ \E d \in Dests :
       /\ xp.live[d] /\ xp.prop[d]["same"] # nullptr
       /\ \E fail \in ThrowingFailsAt({"napi_get_cb_info", "ToJS",
                                        "napi_create_reference",
                                        "napi_get_reference_value"}, {0}) :
            /\ xp' = SameObjGetter(xp, xp.prop[d]["same"], d, fail)
            /\ xlog' = XRecord("SameObjGetter", d, 0, fail, xp')
  /\ UNCHANGED <<pr, plog, call, wr, wlog, reg, rlog, cur, clog>>

\* The host finalizes a destination prototype.
XFinalize ==
  /\ ~xp.wild
  /\ \E d \in Dests :
       /\ xp.live[d] /\ xp.fin[d] # <<>>
       /\ \E fail \in ThrowingFailsAt({"napi_delete_reference"},
                                        0..(Len(xp.fin[d]) - 1)) :
            /\ xp' = Finalize(xp, d, fail)
            /\ xlog' = XRecord("Finalize", d, 0, fail, xp')
  /\ UNCHANGED <<pr, plog, call, wr, wlog, reg, rlog, cur, clog>>

InitExposed ==
  /\ xp = ExposedInit
  /\ xlog = XlogInit
  /\ pr = Unused /\ plog = Unused /\ call = Unused
  /\ wr = Unused /\ wlog = Unused /\ reg = Unused /\ rlog = Unused
  /\ cur = Unused /\ clog = Unused

\* The plain variant: ExposedPartialProperty<T>.
NextExposedPlain ==
  \/ XPlainDefine
  \/ XPlainGetter
  \/ XPlainSetter
  \/ XFinalize

SpecExposedPlain == InitExposed /\ [][NextExposedPlain]_vars

\* The same-object variant: ExposedPartialSameObjProperty<T>.
NextExposedSameObj ==
  \/ XSameObjDefine
  \/ XSameObjGetter
  \/ XFinalize

SpecExposedSameObj == InitExposed /\ [][NextExposedSameObj]_vars

(***************************************************************************)
(* Claims about the Promise bridge.                                        *)
(***************************************************************************)

\* C1: once the state has left kPending, every later Resolve or Reject is a
\* no-op: the Promise (state, payload, and what the host holds) is exactly as
\* before the call, and state and payload are those of the first transition.
C1_TerminalIsFinal ==
  /\ pr.state # kPending =>
        /\ pr.state = plog.first.state
        /\ pr.resolution = plog.first.resolution
  /\ (plog.op \in {"Resolve", "Reject"} /\ plog.before.state # kPending) =>
        pr = plog.before

\* A Resolve made on a rejected Promise holding another payload.
C1_Witness ==
  /\ plog.op = "Resolve"
  /\ plog.before.state = kRejected
  /\ plog.noops >= 1
  /\ pr.state = kRejected

\* The promise is in a terminal state and has an execution context.
Ready(p) == p.state # kPending /\ p.env # nullptr

\* The settlement the buffered outcome calls for.
Buffered(first) ==
  IF first.state = kResolved
    THEN [kind |-> "resolve", value |-> Int32ToJS(first.resolution)]
    ELSE [kind |-> "reject", value |-> JsError(PromiseRejectedMsg)]

\* A Resolve or Reject made without a context makes no host call and creates
\* no deferred pair.
NoContextNoHostCall ==
  (plog.op \in {"Resolve", "Reject"} /\ plog.before.env = nullptr) =>
    /\ pr.ncalls = plog.before.ncalls
    /\ pr.created = plog.before.created
    /\ pr.deferred = nullptr

\* Nothing is settled before the promise is terminal and has a context, and
\* every settlement is the buffered outcome.
SettledOnlyWhenReady ==
  /\ pr.settled # <<>> => Ready(pr)
  /\ \A i \in 1..Len(pr.settled) : pr.settled[i] = Buffered(plog.first)

\* The last call made the promise terminal with a context.
BecameReady == Ready(pr) /\ ~Ready(plog.before)

\* C9 as stated: the deferred value is settled at the first moment at which
\* the promise is terminal and has a context, with the buffered outcome; a
\* Resolve or Reject without a context makes no host call.
C9_SettledAtFirstReadyMoment ==
  /\ NoContextNoHostCall
  /\ SettledOnlyWhenReady
  /\ BecameReady => pr.settled = <<Buffered(plog.first)>>

\* C9, amended: as C9, the settlement at the first such moment provided the
\* host calls Conclude makes at that moment succeed.
C9_SettledAtFirstReadyMomentIfHostOk ==
  /\ NoContextNoHostCall
  /\ SettledOnlyWhenReady
  /\ (BecameReady /\ pr.status = napi_ok) => pr.settled = <<Buffered(plog.first)>>

\* A promise resolved without a context (no host call), settled by the
\* first Conclude(env) with a context.
C9_Witness ==
  /\ plog.op = "Conclude"
  /\ plog.before.state = kResolved
  /\ plog.before.env = nullptr
  /\ plog.before.ncalls = 0
  /\ pr.env # nullptr
  /\ pr.settled = <<[kind |-> "resolve", value |-> Int32ToJS(pr.resolution)]>>

\* C10: the host deferred value of the Promise is settled (resolved or
\* rejected through the host) at most once.
C10_SettledAtMostOnce == Len(pr.settled) <= 1

\* The last call was Conclude(env) on a Promise still kPending.
PendingConclude == plog.op = "Conclude" /\ plog.before.state = kPending

\* C19 as stated: the deferred/future pair is created at most once, and a
\* Conclude(env) made while kPending (the Promise having or being given a
\* context) creates the pair if absent and neither resolves nor rejects it.
C19_PairOnceAndPendingCreates ==
  /\ pr.created <= 1
  /\ PendingConclude => pr.settled = <<>>
  /\ (PendingConclude /\ pr.env # nullptr) =>
       /\ pr.deferred # nullptr /\ pr.promise # nullptr
       /\ pr.created = 1

\* C19, amended: the pair is created at most once; a Conclude(env) made
\* while kPending never resolves or rejects; it creates the pair if absent
\* when the Promise has or is given a context and napi_create_promise
\* succeeds; without a context it makes no host call, and when
\* napi_create_promise fails it returns that status with no pair created.
C19_PairOnceAndPendingCreatesIfHostOk ==
  /\ pr.created <= 1
  /\ (pr.deferred # nullptr \/ pr.promise # nullptr) => pr.created = 1
  /\ PendingConclude =>
       /\ pr.settled = <<>>
       /\ (pr.env # nullptr /\ pr.status = napi_ok) =>
            /\ pr.deferred # nullptr /\ pr.promise # nullptr
            /\ pr.created = 1
       /\ pr.env = nullptr =>
            /\ pr.status = napi_ok
            /\ pr.ncalls = plog.before.ncalls
            /\ pr.deferred = nullptr
       /\ pr.status # napi_ok =>
            /\ plog.fail.at = "napi_create_promise"
            /\ pr.status = plog.fail.st
            /\ pr.deferred = nullptr /\ pr.created = 0

\* A second Conclude(env) on a pending Promise whose pair the first created:
\* no second pair, nothing settled.
C19_Witness ==
  /\ PendingConclude
  /\ plog.before.deferred # nullptr
  /\ plog.before.created = 1
  /\ pr.created = 1
  /\ pr.ncalls = plog.before.ncalls
  /\ pr.settled = <<>>

\* C11: converting a Promise to a dynamic value in a live context
\* (Promise::ToJS, Converter<Promise<T>>::ToJS) returns a materialised future
\* handle, never an unset one, whatever calls preceded it.
C11_ToJSReturnsFuture ==
  plog.op = "ToJS" =>
    /\ call.out.status = napi_ok
    /\ call.out.result # nullptr

(***************************************************************************)
(* PickSignature: the overload resolver.                                   *)
(*                                                                         *)
(* A signature is [candidate, sig]: the flag and the sequence of expected  *)
(* type tags.  Positions are 0-based as in the source; sig[idx] of the     *)
(* source is sig[idx + 1] here.                                            *)
(***************************************************************************)
\* Bounds of the resolver's inputs.
MaxSigs == 3
MaxArgc == 2

\* napi_valuetype tags of the arguments.
ValueTypes == {"number", "string", "boolean"}

\* The parameter lists the candidate signatures are drawn from.
SigShapes == {<<>>, <<"number">>, <<"string">>, <<"number", "string">>,
              <<"number", "number">>}

\* Sequences over S of length at most n.
SeqsUpTo(S, n) == UNION {[1..k -> S] : k \in 0..n}

\* A webidl_sig as a call site declares it: still a candidate.
WebidlSig(shape) == [candidate |-> TRUE, sig |-> shape]

\* The inner loop with the length check left out of the reach of short
\* signatures: a signature with no parameter at idx stays a candidate.
MarkNoLength(sigs, idx, val_type) ==
  [i \in DOMAIN sigs |->
     IF sigs[i].candidate
        /\ idx < Len(sigs[i].sig) /\ sigs[i].sig[idx + 1] # val_type
       THEN [sigs[i] EXCEPT !.candidate = FALSE]
       ELSE sigs[i]]

\* The inner loop: every candidate with no parameter at idx, or another tag
\* there, stops being one.
Mark(sigs, idx, val_type) ==
  [i \in DOMAIN sigs |->
     IF sigs[i].candidate
        /\ (idx >= Len(sigs[i].sig) \/ sigs[i].sig[idx + 1] # val_type)
       THEN [sigs[i] EXCEPT !.candidate = FALSE]
       ELSE sigs[i]]

\* The first loop from position idx on: napi_typeof of each argument, then
\* the marking; a failing napi_typeof ends the function with its status.
RECURSIVE Scan(_, _, _, _)
Scan(sigs, argv, idx, fail) ==
  IF idx >= Len(argv) THEN [status |-> napi_ok, sigs |-> sigs]
  ELSE IF fail.at = "napi_typeof" /\ fail.idx = idx
    THEN [status |-> fail.st, sigs |-> sigs]
  ELSE Scan(Mark(sigs, idx, argv[idx + 1]), argv, idx + 1, fail)

\* The second loop that reports -1 when it finds no candidate.
FirstCandidateOrMinusOne(sigs, idx, sig_idx) ==
  IF \E i \in DOMAIN sigs : sigs[i].candidate
    THEN (CHOOSE i \in DOMAIN sigs :
            /\ sigs[i].candidate
            /\ \A j \in DOMAIN sigs : sigs[j].candidate => i <= j) - 1
    ELSE -1

\* The second loop from index idx on: the first candidate's index is written
\* to *sig_idx; with none, *sig_idx keeps its value.
RECURSIVE FirstCandidate(_, _, _)
FirstCandidate(sigs, idx, sig_idx) ==
  IF idx >= Len(sigs) THEN sig_idx
  ELSE IF sigs[idx + 1].candidate THEN idx
  ELSE FirstCandidate(sigs, idx + 1, sig_idx)

\* PickSignature(env, argc, argv, sigs, sig_idx): argv are the arguments'
\* runtime types, sig_idx the value the caller initialised *sig_idx to.
PickSignature(argv, sigs, sig_idx, fail) ==
  LET scanned == Scan(sigs, argv, 0, fail)
  IN IF scanned.status # napi_ok
       THEN [status |-> scanned.status, sig_idx |-> sig_idx, thrown |-> FALSE]
       ELSE [status |-> napi_ok,
             sig_idx |-> FirstCandidate(scanned.sigs, 0, sig_idx),
             thrown |-> FALSE]

\* The values a caller initialises *sig_idx to: the sentinel -1, or another.
SigIdxInits == {-1, 7}

\* napi_typeof fails at one of the argc arguments, or no call fails.
PickFails(argc) == {NoFail} \cup
                   [at : {"napi_typeof"}, idx : 0..(argc - 1), st : FailStatuses]

CallPickSignature ==
  /\ call = NoCall
  /\ \E shapes \in SeqsUpTo(SigShapes, MaxSigs), argv \in SeqsUpTo(ValueTypes, MaxArgc),
        init \in SigIdxInits :
      \E fail \in PickFails(Len(argv)) :
      /\ call' = [fn |-> "PickSignature",
                  shapes |-> shapes, argv |-> argv, init |-> init, fail |-> fail,
                  out |-> PickSignature(argv,
                                        [i \in DOMAIN shapes |-> WebidlSig(shapes[i])],
                                        init, fail)]
      /\ UNCHANGED <<pr, plog, wr, wlog, reg, rlog, xp, xlog, cur, clog>>

(***************************************************************************)
(* IsConstructCall: the construct-call guard.                              *)
(***************************************************************************)
\* Interface names given as ifname.
IfNames == {"Foo", "Bar"}

\* The message of the error thrown for interface ifname: the fixed text
\* around the interface name (which the source sets between backquotes).
NonConstructMsg(ifname) ==
  <<"Non-construct calls to the ", ifname, " constructor are not supported.">>

\* No exception is pending.
NoException == <<>>

\* IsConstructCall that throws and still reports true.
IsConstructCallStillTrue(has_new_target, ifname, result, fail) ==
  IF fail.at = "napi_get_new_target"
    THEN [status |-> fail.st, result |-> result, thrown |-> NoException]
  ELSE IF ~has_new_target /\ fail.at = "napi_throw_error"
    THEN [status |-> fail.st, result |-> result, thrown |-> NoException]
  ELSE [status |-> napi_ok, result |-> TRUE,
        thrown |-> IF has_new_target THEN NoException ELSE NonConstructMsg(ifname)]

\* IsConstructCall(env, info, ifname, result): has_new_target tells whether
\* napi_get_new_target yields a new-target, result is what *result held.
IsConstructCall(has_new_target, ifname, result, fail) ==
  IF fail.at = "napi_get_new_target"
    THEN [status |-> fail.st, result |-> result, thrown |-> NoException]
  ELSE IF ~has_new_target
    THEN IF fail.at = "napi_throw_error"
           THEN [status |-> fail.st, result |-> result, thrown |-> NoException]
           ELSE [status |-> napi_ok, result |-> FALSE,
                 thrown |-> NonConstructMsg(ifname)]
  ELSE [status |-> napi_ok, result |-> TRUE, thrown |-> NoException]

CallIsConstructCall ==
  /\ call = NoCall
  /\ \E has_new_target \in BOOLEAN, ifname \in IfNames, result \in BOOLEAN,
        fail \in FailsAt({"napi_get_new_target", "napi_throw_error"}) :
    /\ call' = [fn |-> "IsConstructCall",
                has_new_target |-> has_new_target, ifname |-> ifname,
                init |-> result, fail |-> fail,
                out |-> IsConstructCall(has_new_target, ifname, result, fail)]
    /\ UNCHANGED <<pr, plog, wr, wlog, reg, rlog, xp, xlog, cur, clog>>

(***************************************************************************)
(* Converter<T>: the value codecs.  T is one of CodecTypes.                *)
(*                                                                         *)
(* A DOMString is a std::string: a sequence of bytes, NUL (0) included.    *)
(* Numbers of the model are small (below 2^31 in magnitude), where the     *)
(* host's number type holds every integer exactly and the casts between    *)
(* unsigned long and int64_t keep the value.                               *)
(***************************************************************************)
\* Bounds of the codecs' inputs.
MaxNum == 2
MaxStrLen == 2

CodecTypes == {"uint32_t", "int32_t", "int64_t", "DOMString", "object",
               "unsigned long"}

\* The bytes DOMStrings are made of: NUL, 'a', 'b'.
Bytes == {0, 97, 98}

\* The native values of type T the model draws.
NativeValues(T) ==
  CASE T = "uint32_t" -> 0..MaxNum
    [] T = "int32_t" -> (-MaxNum)..MaxNum
    [] T = "int64_t" -> (-MaxNum)..MaxNum
    [] T = "unsigned long" -> 0..MaxNum
    [] T = "DOMString" -> SeqsUpTo(Bytes, MaxStrLen)
    [] T = "object" -> {JsObject(i) : i \in 1..MaxNum}

\* A value-initialised T.
DefaultValue(T) ==
  CASE T = "DOMString" -> <<>>
    [] T = "object" -> JsUndefined
    [] OTHER -> 0

\* The host call Converter<T>::ToJS makes.
ToJSSite(T) ==
  CASE T = "uint32_t" -> "napi_create_uint32"
    [] T = "int32_t" -> "napi_create_int32"
    [] T = "int64_t" -> "napi_create_int64"
    [] T = "unsigned long" -> "napi_create_int64"
    [] T = "DOMString" -> "napi_create_string_utf8"
    [] T = "object" -> "no host call"

\* The host calls Converter<T>::ToNative makes.
ToNativeSites(T) ==
  CASE T = "uint32_t" -> {"napi_get_value_uint32"}
    [] T = "int32_t" -> {"napi_get_value_int32"}
    [] T = "int64_t" -> {"napi_get_value_int64"}
    [] T = "unsigned long" -> {"napi_get_value_int64"}
    [] T = "DOMString" -> {"napi_get_value_string_utf8 (size)",
                           "napi_get_value_string_utf8 (copy)"}
    [] T = "object" -> {}

\* str.c_str() read with NAPI_AUTO_LENGTH: the bytes before the first NUL.
RECURSIVE CStr(_)
CStr(str) ==
  IF str = <<>> \/ Head(str) = 0 THEN <<>> ELSE <<Head(str)>> \o CStr(Tail(str))

\* std::string::resize(n): cut to n bytes, or padded with NUL to n bytes.
Resize(str, n) == [i \in 1..n |-> IF i <= Len(str) THEN str[i] ELSE 0]

\* static_cast<int64_t>(unsigned long) and back, on values below 2^63.
StaticCastInt64(val) == val
StaticCastULong(from_js) == from_js

\* Converter<T>::ToJS(env, value, result): the status and *result.
ToJS(T, value, fail) ==
  IF T = "object" THEN [status |-> napi_ok, value |-> value]
  ELSE IF fail.at = ToJSSite(T) THEN [status |-> fail.st, value |-> JsUndefined]
  ELSE [status |-> napi_ok,
        value |-> CASE T = "DOMString" -> JsString(CStr(value))
                    [] T = "unsigned long" -> JsNumber(StaticCastInt64(value))
                    [] OTHER -> JsNumber(value)]

\* Converter<DOMString>::ToNative(env, str, result): the size is asked for,
\* *result is resized to size + 1, and size bytes and the closing NUL are
\* copied into it.  `calls` counts the host calls made.
DOMStringToNative(str, result, fail) ==
  IF str.t # "string"
    THEN [status |-> "napi_string_expected", result |-> result, calls |-> 1]
  ELSE IF fail.at = "napi_get_value_string_utf8 (size)"
    THEN [status |-> fail.st, result |-> result, calls |-> 1]
  ELSE IF fail.at = "napi_get_value_string_utf8 (copy)"
    THEN [status |-> fail.st, result |-> Resize(result, Len(str.s) + 1),
          calls |-> 2]
  ELSE [status |-> napi_ok, result |-> str.s \o <<0>>, calls |-> 2]

\* Converter<uint32_t|int32_t|int64_t>::ToNative: napi_get_value_*.
NumberToNative(T, value, result, fail) ==
  IF value.t # "number"
    THEN [status |-> "napi_number_expected", result |-> result, calls |-> 1]
  ELSE IF fail.at \in ToNativeSites(T)
    THEN [status |-> fail.st, result |-> result, calls |-> 1]
  ELSE [status |-> napi_ok, result |-> value.n, calls |-> 1]

\* Converter<unsigned long>::ToNative: through an int64_t, cast on success.
ULongToNative(val, result, fail) ==
  LET from_js == NumberToNative("int64_t", val, 0, fail)
  IN IF from_js.status = napi_ok
       THEN [status |-> napi_ok, result |-> StaticCastULong(from_js.result),
             calls |-> from_js.calls]
       ELSE [status |-> from_js.status, result |-> result,
             calls |-> from_js.calls]

\* Converter<T>::ToNative(env, value, result): the status and *result, which
\* held `result` before the call.
ToNative(T, value, result, fail) ==
  CASE T = "object" -> [status |-> napi_ok, result |-> value, calls |-> 0]
    [] T = "DOMString" -> DOMStringToNative(value, result, fail)
    [] T = "unsigned long" -> ULongToNative(value, result, fail)
    [] OTHER -> NumberToNative(T, value, result, fail)

\* ToNative(ToJS(x)) with every host call succeeding.
RoundTrip(T, x) ==
  ToNative(T, ToJS(T, x, NoFail).value, DefaultValue(T), NoFail)

CallCodecRoundTrip ==
  /\ call = NoCall
  /\ \E T \in CodecTypes :
       \E x \in NativeValues(T) :
         /\ call' = [fn |-> "RoundTrip", T |-> T, x |-> x,
                     js |-> ToJS(T, x, NoFail), back |-> RoundTrip(T, x)]
         /\ UNCHANGED <<pr, plog, wr, wlog, reg, rlog, xp, xlog, cur, clog>>

\* What the caller's output location holds before ToNative: a value of an
\* earlier conversion.
PriorValues(T) ==
  CASE T = "DOMString" -> {<<>>, <<98>>}
    [] T = "object" -> {JsUndefined}
    [] OTHER -> {0, 1}

\* Converter<T>::ToNative on the dynamic value of x, into an output location
\* holding `result`, with a host call failing or none.
CallToNative ==
  /\ call = NoCall
  /\ \E T \in CodecTypes :
       \E x \in NativeValues(T), result \in PriorValues(T),
          fail \in FailsAt(ToNativeSites(T)) :
         LET value == ToJS(T, x, NoFail).value
         IN /\ call' = [fn |-> "ToNative", T |-> T, value |-> value,
                        prior |-> result, fail |-> fail,
                        out |-> ToNative(T, value, result, fail)]
            /\ UNCHANGED <<pr, plog, wr, wlog, reg, rlog, xp, xlog, cur, clog>>

(***************************************************************************)
(* details::ArrayToJS and details::ArrayToNative: the container codecs of  *)
(* sequence<T> and FrozenArray<T> (the freeze flag is not used).           *)
(*                                                                         *)
(* A dynamic array is [t |-> "array", elems |-> its elements]; index idx   *)
(* of the source is position idx + 1 here.  `log` is the sequence of host  *)
(* calls and element conversions made, each with its index.                *)
(***************************************************************************)
\* Bounds of the container codecs' inputs.
MaxArrayLen == 3
MaxElem == 2

\* The element types the model instantiates the containers with.
ElemTypes == {"int32_t", "DOMString"}

\* The elements the model draws: numbers, and the strings "", "a", "a\0b".
ElemValues(T) ==
  IF T = "DOMString" THEN {<<>>, <<97>>, <<97, 0, 98>>} ELSE 1..MaxElem

JsArray(elems) == [t |-> "array", elems |-> elems]

Op(name, idx) == [op |-> name, idx |-> idx]

\* The failure `fail` if it is of index idx, none otherwise.
FailHere(fail, idx) == IF fail.idx = idx THEN fail ELSE NoFail

\* napi_set_element(env, res, idx, member)
SetElement(elems, idx, member) ==
  [i \in 1..(IF idx + 1 > Len(elems) THEN idx + 1 ELSE Len(elems)) |->
     IF i = idx + 1 THEN member
     ELSE IF i <= Len(elems) THEN elems[i] ELSE JsUndefined]

\* The loop of ArrayToJS from index idx on; elems are the elements set so far.
RECURSIVE ToJSLoop(_, _, _, _, _, _)
ToJSLoop(T, ar, idx, elems, log, fail) ==
  IF idx >= Len(ar) THEN [status |-> napi_ok, elems |-> elems, log |-> log]
  ELSE LET member == ToJS(T, ar[idx + 1], FailHere(fail, idx))
           log1 == Append(log, Op("ToJS", idx))
           log2 == Append(log1, Op("napi_set_element", idx))
       IN IF member.status # napi_ok
            THEN [status |-> member.status, elems |-> elems, log |-> log1]
          ELSE IF fail.at = "napi_set_element" /\ fail.idx = idx
            THEN [status |-> fail.st, elems |-> elems, log |-> log2]
          ELSE ToJSLoop(T, ar, idx + 1, SetElement(elems, idx, member.value),
                        log2, fail)

\* details::ArrayToJS(env, ar, result): the status, *result when `written`,
\* and the calls made.
ArrayToJS(T, ar, fail) ==
  LET unset(st, log) == [status |-> st, written |-> FALSE,
                         value |-> JsUndefined, log |-> log]
      open == <<Op("napi_open_escapable_handle_scope", 0)>>
      create == Append(open, Op("napi_create_array", 0))
      loop == ToJSLoop(T, ar, 0, <<>>, create, fail)
      escape == Append(loop.log, Op("napi_escape_handle", 0))
      close == Append(escape, Op("napi_close_escapable_handle_scope", 0))
  IN IF fail.at = "napi_open_escapable_handle_scope" THEN unset(fail.st, open)
     ELSE IF fail.at = "napi_create_array" THEN unset(fail.st, create)
     ELSE IF loop.status # napi_ok THEN unset(loop.status, loop.log)
     ELSE IF fail.at = "napi_escape_handle" THEN unset(fail.st, escape)
     ELSE IF fail.at = "napi_close_escapable_handle_scope" THEN unset(fail.st, close)
     ELSE [status |-> napi_ok, written |-> TRUE,
           value |-> JsArray(loop.elems), log |-> close]

\* The loop of ArrayToNative that stops one element early.
RECURSIVE ToNativeLoopShort(_, _, _, _, _, _)
ToNativeLoopShort(T, ar, idx, res, log, fail) ==
  IF idx >= Len(res) - 1 THEN [status |-> napi_ok, res |-> res, log |-> log]
  ELSE LET log1 == Append(log, Op("napi_get_element", idx))
           log2 == Append(log1, Op("ToNative", idx))
           item == ToNative(T, ar.elems[idx + 1], res[idx + 1], FailHere(fail, idx))
       IN IF fail.at = "napi_get_element" /\ fail.idx = idx
            THEN [status |-> fail.st, res |-> res, log |-> log1]
          ELSE IF item.status # napi_ok
            THEN [status |-> item.status, res |-> res, log |-> log2]
          ELSE ToNativeLoopShort(T, ar, idx + 1,
                                 [res EXCEPT ![idx + 1] = item.result], log2, fail)

\* The loop of ArrayToNative from index idx on; res is the local container,
\* resized to the array's length.
RECURSIVE ToNativeLoop(_, _, _, _, _, _)
ToNativeLoop(T, ar, idx, res, log, fail) ==
  IF idx >= Len(res) THEN [status |-> napi_ok, res |-> res, log |-> log]
  ELSE LET log1 == Append(log, Op("napi_get_element", idx))
           log2 == Append(log1, Op("ToNative", idx))
           item == ToNative(T, ar.elems[idx + 1], res[idx + 1], FailHere(fail, idx))
       IN IF fail.at = "napi_get_element" /\ fail.idx = idx
            THEN [status |-> fail.st, res |-> res, log |-> log1]
          ELSE IF item.status # napi_ok
            THEN [status |-> item.status, res |-> res, log |-> log2]
          ELSE ToNativeLoop(T, ar, idx + 1,
                            [res EXCEPT ![idx + 1] = item.result], log2, fail)

\* details::ArrayToNative(env, ar, result): the status, *result (which held
\* `result` before the call) and the calls made.
ArrayToNative(T, ar, result, fail) ==
  LET kept(st, log) == [status |-> st, result |-> result, log |-> log]
      open == <<Op("napi_open_handle_scope", 0)>>
      length == Append(open, Op("napi_get_array_length", 0))
      size == Len(ar.elems)
      loop == ToNativeLoop(T, ar, 0, [i \in 1..size |-> DefaultValue(T)],
                           length, fail)
      close == Append(loop.log, Op("napi_close_handle_scope", 0))
  IN IF fail.at = "napi_open_handle_scope" THEN kept(fail.st, open)
     ELSE IF ar.t # "array" THEN kept("napi_array_expected", length)
     ELSE IF fail.at = "napi_get_array_length" THEN kept(fail.st, length)
     ELSE IF loop.status # napi_ok THEN kept(loop.status, loop.log)
     ELSE IF fail.at = "napi_close_handle_scope" THEN kept(fail.st, close)
     ELSE [status |-> napi_ok, result |-> loop.res, log |-> close]

\* The host calls of ArrayToJS followed by ArrayToNative on n elements of
\* type T, one of which fails, or none.
ArrayFails(T, n) ==
  {NoFail}
  \cup [at : {"napi_open_escapable_handle_scope", "napi_create_array",
              "napi_escape_handle", "napi_close_escapable_handle_scope",
              "napi_open_handle_scope", "napi_get_array_length",
              "napi_close_handle_scope"},
        idx : {0}, st : FailStatuses]
  \cup [at : ({ToJSSite(T), "napi_set_element", "napi_get_element"}
              \cup ToNativeSites(T)) \ {"no host call"},
        idx : 0..(n - 1), st : FailStatuses]

\* The not-a-result a caller's container holds before ArrayToNative.
PriorResult(T) == <<DefaultValue(T)>>

\* sequence<T>::ToJS then sequence<T>::ToNative on its result, as a caller
\* that leaves at the first failure makes them.
CallArrayRoundTrip ==
  /\ call = NoCall
  /\ \E T \in ElemTypes :
       \E ar \in SeqsUpTo(ElemValues(T), MaxArrayLen) :
         \E fail \in ArrayFails(T, Len(ar)) :
           LET js == ArrayToJS(T, ar, fail)
           IN /\ call' = [fn |-> "ArrayRoundTrip", T |-> T, ar |-> ar,
                          fail |-> fail, js |-> js,
                          back |-> IF js.status = napi_ok
                                     THEN ArrayToNative(T, js.value,
                                                        PriorResult(T), fail)
                                     ELSE [status |-> js.status,
                                           result |-> PriorResult(T),
                                           log |-> <<>>]]
              /\ UNCHANGED <<pr, plog, wr, wlog, reg, rlog, xp, xlog, cur, clog>>

InitCalls ==
  /\ call = NoCall
  /\ pr = Unused /\ plog = Unused /\ wr = Unused /\ wlog = Unused
  /\ reg = Unused /\ rlog = Unused /\ xp = Unused /\ xlog = Unused
  /\ cur = Unused /\ clog = Unused

NextCalls ==
  \/ CallPickSignature
  \/ CallIsConstructCall
  \/ CallCodecRoundTrip
  \/ CallToNative
  \/ CallArrayRoundTrip

SpecCalls == InitCalls /\ [][NextCalls]_vars

(***************************************************************************)
(* Claims about the object wrapping and its same-object cache.             *)
(***************************************************************************)
LastSameObjectGet ==
  /\ wlog.last.op = "InstanceGetter" /\ wlog.last.ok /\ wlog.last.idx >= 0
  /\ wlog.last.idx < Len(wr.inst[wlog.last.i].refs)

\* C4: on a wrapped instance, every successful call of a same-object getter
\* (slot index below the slot count) after the first returns the dynamic
\* value the first returned and makes no new conversion, whatever getter and
\* setter calls came between.
C4_SameObjectIdentity ==
  LastSameObjectGet =>
    /\ wr.ret = wlog.first[wlog.last.i][wlog.last.idx]
    /\ wr.ret # NullValue
    /\ wlog.gets[wlog.last.i][wlog.last.idx] >= 2 => wr.nobj = wlog.last.nobj

\* A second successful read of slot 0 after a setter rewrote the field: the
\* value returned still carries the field's earlier content.
C4_Witness ==
  /\ LastSameObjectGet
  /\ wlog.last.idx = 0
  /\ wlog.gets[wlog.last.i][0] = 2
  /\ wr.ret = wlog.first[wlog.last.i][0]
  /\ wr.ret.n # wr.inst[wlog.last.i].field

\* The number of times `e` occurs in the sequence `events`.
Count(events, e) == Cardinality({k \in DOMAIN events : events[k] = e})

\* n times the element e.
Repeat(e, n) == [k \in 1..n |-> e]

\* C5: when the host finalizes a wrapped instance, Destroy releases every
\* non-empty slot reference, then deletes the native object, then the
\* Wrapping Record; the native object is deleted exactly once per finalized
\* instance, also when a release fails, and by no other operation.
C5_DestroyDeletesNativeOnce ==
  \A i \in Instances :
    LET inst == wr.inst[i]
        held == Cardinality({k \in DOMAIN inst.refs : inst.refs[k] # nullptr})
    IN /\ inst.phase = "finalized" =>
            inst.events = <<"new Wrapping">>
                          \o Repeat("napi_delete_reference", held)
                          \o <<"delete native", "delete wrapping">>
       /\ inst.phase # "finalized" => Count(inst.events, "delete native") = 0
       /\ Count(inst.events, "delete native") <= 1

\* The references (positions in wr.refs) held in the slots of instance i.
HeldRefs(i) ==
  {wr.inst[i].refs[k] :
     k \in {l \in DOMAIN wr.inst[i].refs : wr.inst[i].refs[l] # nullptr}}

\* Every reference SetRef created is held in a slot of some Wrapping: none
\* was overwritten by a second write to its slot.
NoReferenceOverwritten ==
  \A r \in DOMAIN wr.refs : \E i \in Instances : r \in HeldRefs(i)

\* C21: whatever getter and setter calls were made on the wrapped instances,
\* SetRef wrote only below the slot count and only into empty slots, so every
\* reference it created is held in a slot, and once an instance is finalized
\* every reference its slots hold has been released, exactly once.
C21_EveryReferenceHeldAndReleased ==
  /\ ~wr.wild
  /\ NoReferenceOverwritten
  /\ \A i \in Instances :
       wr.inst[i].phase = "finalized" =>
         \A r \in HeldRefs(i) : wr.refs[r].deleted = 1

\* The dynamic values held in the slots of instance j's Wrapping.
SlotValues(j) ==
  {wr.refs[wr.inst[j].refs[k]].value :
     k \in {l \in DOMAIN wr.inst[j].refs : wr.inst[j].refs[l] # nullptr}}

\* C17: a successful same-object getter call on an instance never returns a
\* value held in a slot of another instance's Wrapping, and the values first
\* read on two different instances are different objects (every conversion
\* of the model makes a new dynamic object).
C17_CachesPerInstance ==
  /\ LastSameObjectGet =>
       \A j \in Instances \ {wlog.last.i} :
         \A v \in SlotValues(j) : v.id # wr.ret.id
  /\ \A i, j \in Instances : \A k, l \in SlotIdx :
       (i # j /\ wlog.first[i][k] # NullValue /\ wlog.first[j][l] # NullValue)
         => wlog.first[i][k].id # wlog.first[j][l].id

\* Slot 0 read on both instances, whose native fields hold the same value:
\* the second instance's read returns its own object, not the first's.
C17_Witness ==
  /\ LastSameObjectGet
  /\ wlog.last.i = 2 /\ wlog.last.idx = 0
  /\ wlog.first[1][0] # NullValue
  /\ wr.inst[1].field = wr.inst[2].field
  /\ wr.ret = wlog.first[2][0]
  /\ wr.ret.n = wlog.first[1][0].n
  /\ wr.ret.id # wlog.first[1][0].id

\* C12: Create fails only if napi_wrap fails; when it fails it returns that
\* status, the native object is not deleted, and no destructor is registered
\* for the instance (it is not wrapped, so no finalizer will delete it).
C12_CreateFailureKeepsNative ==
  /\ wlog.last.op = "Create" =>
       LET inst == wr.inst[wlog.last.i]
       IN /\ wr.status # napi_ok <=> wlog.last.fail.at = "napi_wrap"
          /\ wr.status # napi_ok =>
               /\ wr.status = wlog.last.fail.st
               /\ inst.phase = "new"
               /\ inst.events = <<"new Wrapping">>
          /\ wr.status = napi_ok => inst.phase = "wrapped"
  /\ \A i \in Instances :
       wr.inst[i].phase = "new" => Count(wr.inst[i].events, "delete native") = 0

\* Create failed on one instance while the other was wrapped and finalized:
\* only the finalized one's native object was deleted.
C12_Witness ==
  /\ wlog.last.op = "Create"
  /\ wr.status = "napi_pending_exception"
  /\ wr.inst[wlog.last.i].phase = "new"
  /\ wr.inst[wlog.last.i].events = <<"new Wrapping">>
  /\ \E j \in Instances : wr.inst[j].phase = "finalized"

(***************************************************************************)
(* Claims about the overload resolver.                                     *)
(***************************************************************************)
\* Signature `shape` has a parameter at every position of argv, with the
\* argument's runtime type.
Matches(shape, argv) ==
  \A k \in 1..Len(argv) : k <= Len(shape) /\ shape[k] = argv[k]

\* The 0-based indices of the signatures that match argv.
Matching(shapes, argv) == {i \in 0..(Len(shapes) - 1) : Matches(shapes[i + 1], argv)}

IsPick == call.fn = "PickSignature"

\* The signatures of the spec's example.
ExampleShapes == <<<<"number">>, <<"string">>, <<"number", "string">>>>

\* C2: when napi_typeof succeeds for every argument and some signature
\* matches, *sig_idx is the smallest index of a matching signature; for
\* [[number],[string],[number,string]] that is 0 for [number] and 2 for
\* [number,string].
C2_PicksFirstMatching ==
  (IsPick /\ call.fail = NoFail) =>
    /\ \A i \in Matching(call.shapes, call.argv) :
         /\ call.out.sig_idx \in Matching(call.shapes, call.argv)
         /\ call.out.sig_idx <= i
    /\ (call.shapes = ExampleShapes /\ call.argv = <<"number">>) =>
         call.out.sig_idx = 0
    /\ (call.shapes = ExampleShapes /\ call.argv = <<"number", "string">>) =>
         call.out.sig_idx = 2

\* Two signatures match and a non-matching one is declared before them: the
\* earlier-declared of the two is picked.
C2_Witness ==
  /\ IsPick /\ call.fail = NoFail
  /\ call.shapes = <<<<"string">>, <<"number", "string">>, <<"number", "number">>>>
  /\ call.argv = <<"number">>
  /\ call.init = -1
  /\ call.out.sig_idx = 1

\* C3: with no candidate left PickSignature returns napi_ok, leaves *sig_idx
\* as the caller initialised it and throws nothing; when napi_typeof fails it
\* returns that status and leaves *sig_idx as it was.
C3_NoMatchLeavesSigIdx ==
  IsPick =>
    /\ (call.fail = NoFail /\ Matching(call.shapes, call.argv) = {}) =>
         /\ call.out.status = napi_ok
         /\ call.out.sig_idx = call.init
         /\ ~call.out.thrown
    /\ call.fail # NoFail =>
         /\ call.out.status = call.fail.st
         /\ call.out.sig_idx = call.init
         /\ ~call.out.thrown

\* [boolean] against the example's signatures, *sig_idx initialised to 7.
C3_Witness ==
  /\ IsPick /\ call.fail = NoFail
  /\ call.shapes = ExampleShapes
  /\ call.argv = <<"boolean">>
  /\ call.init = 7
  /\ call.out = [status |-> napi_ok, sig_idx |-> 7, thrown |-> FALSE]

(***************************************************************************)
(* Claims about the construct-call guard.                                  *)
(***************************************************************************)
IsIcc == call.fn = "IsConstructCall"

\* C6 as stated: without a new-target an error naming the interface is
\* thrown and the result is false; with one nothing is thrown and the result
\* is true.
C6_GuardAlways ==
  IsIcc =>
    /\ ~call.has_new_target =>
         /\ call.out.thrown = NonConstructMsg(call.ifname)
         /\ call.out.result = FALSE
    /\ call.has_new_target =>
         /\ call.out.thrown = NoException
         /\ call.out.result = TRUE

\* C6, amended: the same whenever IsConstructCall returns napi_ok; when a
\* host call fails it returns that status, throws nothing and leaves *result
\* as it was; it never writes true without a new-target.
C6_GuardWhenOk ==
  IsIcc =>
    /\ (call.out.status = napi_ok /\ ~call.has_new_target) =>
         /\ call.out.thrown = NonConstructMsg(call.ifname)
         /\ call.out.result = FALSE
    /\ (call.out.status = napi_ok /\ call.has_new_target) =>
         /\ call.out.thrown = NoException
         /\ call.out.result = TRUE
    /\ call.out.status # napi_ok =>
         /\ call.out.status = call.fail.st
         /\ call.out.thrown = NoException
         /\ call.out.result = call.init
    /\ call.fail = NoFail => call.out.status = napi_ok

\* A call without a new-target, *result holding true before it.
C6_Witness ==
  /\ IsIcc /\ call.fail = NoFail
  /\ ~call.has_new_target /\ call.init = TRUE /\ call.ifname = "Foo"
  /\ call.out = [status |-> napi_ok, result |-> FALSE,
                 thrown |-> NonConstructMsg("Foo")]

(***************************************************************************)
(* Claims about the value codecs.                                          *)
(***************************************************************************)
IsRoundTrip == call.fn = "RoundTrip"

\* C8: for every codec and every native value x, ToNative(ToJS(x)) succeeds
\* and yields a value equal to x (for DOMString the same length and bytes).
C8_RoundTripIsIdentity ==
  IsRoundTrip =>
    /\ call.back.status = napi_ok
    /\ call.back.result = call.x

\* The host calls ToNative of type T has made when the call `at` fails.
CallsUpTo(at) == IF at = "napi_get_value_string_utf8 (copy)" THEN 2 ELSE 1

(***************************************************************************)
(* Claims about the container codecs.                                      *)
(***************************************************************************)
IsArrayRoundTrip == call.fn = "ArrayRoundTrip"

\* The entry the container codecs log for the call that `fail` makes fail.
FailedOp(T, fail) ==
  Op(IF fail.at = ToJSSite(T) THEN "ToJS"
     ELSE IF fail.at \in ToNativeSites(T) THEN "ToNative"
     ELSE fail.at, fail.idx)

\* C13: a conversion that returns a non-success status because a host call
\* failed returns that call's status, makes no host call after it, and leaves
\* the caller's output location holding what it held before the call.
C13_FailureLeavesOutputUntouched ==
  /\ (call.fn = "ToNative" /\ call.fail # NoFail) =>
        /\ call.out.status = call.fail.st
        /\ call.out.calls = CallsUpTo(call.fail.at)
        /\ call.out.result = call.prior
  /\ (IsArrayRoundTrip /\ call.js.status # napi_ok) =>
        /\ call.js.status = call.fail.st
        /\ call.js.log[Len(call.js.log)] = FailedOp(call.T, call.fail)
        /\ ~call.js.written
  /\ (IsArrayRoundTrip /\ call.js.status = napi_ok
                        /\ call.back.status # napi_ok) =>
        /\ call.back.status = call.fail.st
        /\ call.back.log[Len(call.back.log)] = FailedOp(call.T, call.fail)
        /\ call.back.result = PriorResult(call.T)

\* The indices at which `log` has the operation `name`, in the order made.
RECURSIVE IndicesOf(_, _)
IndicesOf(log, name) ==
  IF log = <<>> THEN <<>>
  ELSE (IF Head(log).op = name THEN <<Head(log).idx>> ELSE <<>>)
       \o IndicesOf(Tail(log), name)

\* 0, 1, ..., n - 1
Ascending(n) == [i \in 1..n |-> i - 1]

\* C7: when all host calls succeed, ArrayToNative(ArrayToJS(s)) has the
\* length n of s and at each index the element round-trip of s's element;
\* ArrayToJS sets and ArrayToNative reads the indices 0..n-1 in ascending
\* order; n = 0 gives an empty container on both sides.
C7_ArrayRoundTrip ==
  (IsArrayRoundTrip /\ call.fail = NoFail) =>
    LET n == Len(call.ar)
    IN /\ call.js.status = napi_ok /\ call.back.status = napi_ok
       /\ Len(call.js.value.elems) = n
       /\ Len(call.back.result) = n
       /\ \A i \in 1..n :
            call.back.result[i] = RoundTrip(call.T, call.ar[i]).result
       /\ IndicesOf(call.js.log, "napi_set_element") = Ascending(n)
       /\ IndicesOf(call.back.log, "napi_get_element") = Ascending(n)
       /\ IndicesOf(call.back.log, "ToNative") = Ascending(n)
       /\ n = 0 => call.js.value.elems = <<>> /\ call.back.result = <<>>

\* The regions closed in `log`, the calls of which `fail` made none fail but
\* the one it names: the successful calls of `close`.
Closed(log, close, fail) ==
  Count(log, Op(close, 0)) - (IF fail.at = close THEN 1 ELSE 0)

\* The regions opened in `log`: the successful calls of `open`.
Opened(log, open, fail) ==
  Count(log, Op(open, 0)) - (IF fail.at = open THEN 1 ELSE 0)

\* C18: in ArrayToJS and ArrayToNative every handle region successfully
\* opened is closed exactly once before the function returns, on success and
\* on any failure inside; a region whose open call failed is never closed;
\* on the success path of ArrayToJS the array is escaped before the close.
C18_RegionsClosedOnce ==
  IsArrayRoundTrip =>
    /\ Closed(call.js.log, "napi_close_escapable_handle_scope", call.fail)
         = Opened(call.js.log, "napi_open_escapable_handle_scope", call.fail)
    /\ Closed(call.back.log, "napi_close_handle_scope", call.fail)
         = Opened(call.back.log, "napi_open_handle_scope", call.fail)
    /\ Count(call.js.log, Op("napi_close_escapable_handle_scope", 0)) <= 1
    /\ Count(call.back.log, Op("napi_close_handle_scope", 0)) <= 1
    /\ call.js.status = napi_ok =>
         LET n == Len(call.js.log)
         IN /\ call.js.log[n - 1] = Op("napi_escape_handle", 0)
            /\ call.js.log[n] = Op("napi_close_escapable_handle_scope", 0)

\* Three different strings, converted and converted back in their order.
C7_Witness ==
  /\ IsArrayRoundTrip /\ call.fail = NoFail
  /\ call.T = "DOMString"
  /\ call.ar = << <<97, 0, 98>>, <<>>, <<97>> >>
  /\ call.js.value.elems = <<JsString(<<97>>), JsString(<<>>), JsString(<<97>>)>>
  /\ call.back.result = << <<97, 0>>, <<0>>, <<97, 0>> >>

(***************************************************************************)
(* Claims about the registry of the execution context.                     *)
(***************************************************************************)
\* C16: when the context tears down, Destroy releases every constructor
\* reference AddConstructor created, each exactly once, after any sequence
\* of AddConstructor and GetConstructor calls, and then runs the user data
\* finalizer if one was set.
C16_DestroyReleasesEveryCtorRef ==
  reg.destroyed =>
    /\ \A ref \in rlog.added : reg.refs[ref].deleted = 1
    /\ reg.finalized = IF reg.data # nullptr /\ reg.cb # nullptr THEN 1 ELSE 0

\* C20: the name-to-constructor mapping is changed only by AddConstructor:
\* GetConstructor, GetData and SetData leave the registered names and their
\* references unchanged, for registered and unregistered names alike.
C20_OnlyAddConstructorChangesCtors ==
  rlog.op \in {"GetConstructor", "GetData", "SetData"} =>
    reg.ctors = rlog.before.ctors

(***************************************************************************)
(* Claims about the exposed partial properties.                            *)
(***************************************************************************)
LastSameObjRead == xlog.last.op = "SameObjGetter" /\ xlog.last.ok

\* Two destination prototypes of one Define call have records of their own,
\* and what was first read on one is not what was first read on the other.
IndependentRecords(kind) ==
  \A d, e \in Dests :
    d # e =>
      /\ xp.prop[d][kind] # nullptr => xp.prop[d][kind] # xp.prop[e][kind]
      /\ (xlog.first[d] # NullValue /\ xlog.first[e] # NullValue)
           => xlog.first[d].id # xlog.first[e].id

\* C14 as stated: on each destination prototype the same-object getter
\* constructs and converts a native value at most once over the prototype's
\* lifetime, every successful read returns the value of the first read, and
\* two prototypes of one Define call have independent records and caches.
C14_SameObjConvertedOnce ==
  /\ \A d \in Dests : xp.items[d] <= 1
  /\ LastSameObjRead =>
       xp.ret # NullValue /\ xp.ret = xlog.first[xlog.last.d]
  /\ IndependentRecords("same")

\* C14, amended: once a read on a prototype has succeeded no native value is
\* constructed or converted there again, and every successful read returns
\* the value that first successful read returned; a read that throws caches
\* nothing, so only after such reads is a value constructed a second time;
\* two prototypes of one Define call have independent records and caches.
C14_SameObjConvertedOnceAfterSuccess ==
  /\ \A d \in Dests :
       /\ xlog.late[d] = 0
       /\ xlog.clean[d] => xp.items[d] <= 1
       /\ xlog.first[d] # NullValue => xp.items[d] >= 1
  /\ LastSameObjRead =>
       xp.ret # NullValue /\ xp.ret = xlog.first[xlog.last.d]
  /\ IndependentRecords("same")

\* Both prototypes read, the second one twice: the second read returns the
\* object of its first read, one conversion was made on each prototype.
C14_Witness ==
  /\ LastSameObjRead /\ xlog.last.d = 2
  /\ xlog.n = 3
  /\ xlog.first[1] # NullValue
  /\ xp.ret = xlog.first[2]
  /\ xp.items[1] = 1 /\ xp.items[2] = 1
  /\ xp.nobj = 2

\* C15: each destination prototype has its own backing value: a successful
\* Setter call on a prototype stores the converted value in that prototype's
\* record only, a later Getter call there returns the conversion of the
\* value last set there, and Define returns napi_ok when every host call
\* succeeds.
C15_PlainPropertyPerPrototype ==
  /\ (xlog.last.op = "PlainDefine" /\ xlog.last.hostok) => xp.status = napi_ok
  /\ ~xp.wild
  /\ \A d \in Dests :
       (xp.prop[d]["plain"] # nullptr /\ xlog.lastset[d] # 0) =>
         xp.recs[xp.prop[d]["plain"]].value = xlog.lastset[d]
  /\ (xlog.last.op = "PlainGetter" /\ xlog.last.ok
                                   /\ xlog.lastset[xlog.last.d] # 0) =>
       xp.ret = Int32ToJS(xlog.lastset[xlog.last.d])
  /\ IndependentRecords("plain")

\* The prototypes whose finalizer list holds record k.
FinalizerDests(k) ==
  {d \in Dests : \E j \in DOMAIN xp.fin[d] : xp.fin[d][j] = k}

\* C22: every record Define allocated is freed exactly once, by the
\* finalizer of its destination prototype and not before, also when a host
\* call of Define failed: a record not yet freed is in the finalizer list of
\* a prototype still alive, a freed record was freed once and is in the list
\* of a finalized prototype, and the reference a freed same-object record
\* cached has been released, once.
C22_RecordsFreedOnceByFinalizer ==
  \A k \in DOMAIN xp.recs :
    LET rec == xp.recs[k]
    IN /\ rec.freed <= 1
       /\ rec.freed = 1 => \E d \in FinalizerDests(k) : ~xp.live[d]
       /\ rec.freed = 0 => \E d \in FinalizerDests(k) : xp.live[d]
       /\ (rec.freed = 1 /\ rec.kind = "same" /\ rec.value # nullptr) =>
            xp.refs[rec.value].deleted = 1

(***************************************************************************)
(* Claims about InstanceData::GetCurrent.                                  *)
(***************************************************************************)
\* The InstanceData allocated for context e and not deleted.
LiveRecords(e) ==
  {k \in DOMAIN cur.heap : cur.heap[k].env = e /\ cur.heap[k].freed = 0}

LastGetCurrent == clog.last.op = "GetCurrent"

\* C23: a context has at most one InstanceData that is not deleted, and it
\* is the one the host holds for the context; GetCurrent allocates only when
\* the host held none; a successful call returns the InstanceData the first
\* successful call in that context returned; a failed call returns the
\* status of the failed host call and leaves *result as it was, and the
\* InstanceData it allocated, if any, is deleted, once.
C23_OneInstanceDataPerContext ==
  /\ \A e \in CurrentEnvs :
       /\ Cardinality(LiveRecords(e)) <= 1
       /\ LiveRecords(e) \subseteq {cur.data[e]}
  /\ \A k \in DOMAIN cur.heap : cur.heap[k].freed <= 1
  /\ LastGetCurrent =>
       LET env == clog.last.env
           grew == Len(cur.heap) > clog.last.heaplen
       IN /\ grew => clog.last.had = nullptr
          /\ cur.status = napi_ok =>
               /\ cur.result # nullptr
               /\ cur.result = cur.data[env]
               /\ cur.result = clog.first[env]
               /\ LiveRecords(env) = {cur.result}
          /\ cur.status # napi_ok =>
               /\ cur.status = clog.last.fail.st
               /\ cur.result = clog.last.prior
               /\ cur.data[env] = clog.last.had
               /\ grew => /\ clog.last.fail.at = "napi_set_instance_data"
                          /\ cur.heap[Len(cur.heap)].freed = 1

\* A call whose registration failed (its InstanceData deleted, *result still
\* holding the other context's InstanceData) ...
C23_WitnessFailure ==
  /\ LastGetCurrent /\ cur.status # napi_ok
  /\ Len(cur.heap) > clog.last.heaplen
  /\ cur.heap[Len(cur.heap)].freed = 1
  /\ cur.result # nullptr /\ cur.result = clog.last.prior
  /\ cur.heap[cur.result].env # clog.last.env

\* ... and a later successful call in a context where an earlier registration
\* had failed: it returns the InstanceData the first successful call there
\* returned, allocating nothing, over a *result that held something else.
C23_Witness ==
  /\ LastGetCurrent /\ cur.status = napi_ok
  /\ clog.last.had # nullptr
  /\ Len(cur.heap) = clog.last.heaplen
  /\ cur.result = clog.first[clog.last.env]
  /\ cur.result # clog.last.prior
  /\ \E k \in DOMAIN cur.heap :
       cur.heap[k].env = clog.last.env /\ cur.heap[k].freed = 1

====
